---- MODULE Spec2Model ----
(***************************************************************************)
(* Model of the chess engine of chess_gui: the Board (board.rs), its move  *)
(* generation and legality filter, and the ChessAI search (ai.rs).         *)
(* Squares are <<row, col>> pairs with row 0 = Black's back rank, as in    *)
(* the source.                                                             *)
(***************************************************************************)
EXTENDS Integers, Sequences, FiniteSets, TLC

VARIABLES
    \* the Board, and the game played on it
    board, current_player,
    \* legal play: the opening line followed, the moves made, and history
    line, step, free, rook_intact, king_stayed,
    \* the ChessAI engine and the frame of one get_best_move call
    ai, pc, id_depth, id_best_move, sd_moves, sd_index, sd_best, elapsed, result,
    \* history of the call: the choice of the deepest complete iteration, and
    \* the checkmated nodes the current iteration has scored
    complete_move, cut_short, mates,
    \* ChessGame and ChessApp: the state of the game, the flags of the AI's
    \* turn, the selection and the promotion awaiting its choice, and the
    \* argument and the value of the last ChessGame::make_move call
    game_state, ai_thinking, ai_move_start, ai_difficulty, selected_square, valid_moves,
    promotion_pending, called, returned

play_vars == <<line, step, free, rook_intact, king_stayed>>

search_vars == <<ai, pc, id_depth, id_best_move, sd_moves, sd_index, sd_best, elapsed, result,
                 complete_move, cut_short, mates>>

app_vars == <<game_state, ai_thinking, ai_move_start, ai_difficulty, selected_square,
              valid_moves, promotion_pending, called, returned>>

vars == <<board, current_player, play_vars, search_vars, app_vars>>

(***************************************************************************)
(* types.rs                                                                *)
(***************************************************************************)
Colors == {"White", "Black"}

\* Option<Piece>::None, Option<(usize, usize)>::None
NoPiece == [piece_type |-> "None", color |-> "None"]
NoSquare == <<8, 8>>

Piece(piece_type, color) == [piece_type |-> piece_type, color |-> color]

Move(from, to, promotion) == [from |-> from, to |-> to, promotion |-> promotion]

opposite(color) == IF color = "White" THEN "Black" ELSE "White"

Abs(x) == IF x < 0 THEN -x ELSE x

RECURSIVE Flatten(_)
Flatten(ss) == IF ss = <<>> THEN <<>> ELSE Head(ss) \o Flatten(Tail(ss))

\* (x as i32 + d).try_into::<usize>() is Ok and the result is < 8
OnBoard(r, c) == r >= 0 /\ r < 8 /\ c >= 0 /\ c < 8

(***************************************************************************)
(* board.rs: Board::new, get_piece, set_piece, make_move                   *)
(***************************************************************************)
BackRank == <<"Rook", "Knight", "Bishop", "Queen", "King", "Bishop", "Knight", "Rook">>

setup_initial_position ==
    [row \in 0..7 |-> [col \in 0..7 |->
        CASE row = 7 -> Piece(BackRank[col + 1], "White")
          [] row = 6 -> Piece("Pawn", "White")
          [] row = 0 -> Piece(BackRank[col + 1], "Black")
          [] row = 1 -> Piece("Pawn", "Black")
          [] OTHER -> NoPiece]]

Board_new ==
    [squares |-> setup_initial_position,
     white_king_pos |-> <<7, 4>>,
     black_king_pos |-> <<0, 4>>,
     white_king_moved |-> FALSE,
     black_king_moved |-> FALSE,
     white_rook_a_moved |-> FALSE,
     white_rook_h_moved |-> FALSE,
     black_rook_a_moved |-> FALSE,
     black_rook_h_moved |-> FALSE,
     en_passant_target |-> NoSquare]

get_piece(b, pos) == b.squares[pos[1]][pos[2]]

\* Writes the square only: the king-square cache is not touched.
set_piece(b, pos, piece) == [b EXCEPT !.squares[pos[1]][pos[2]] = piece]

\* The castling branch unwraps the rook on the corner: a king move of two
\* files with no piece on that corner panics.
make_move_panics(b, mv) ==
    LET piece == get_piece(b, mv.from) IN
    \/ /\ piece.piece_type = "King"
       /\ Abs(mv.to[2] - mv.from[2]) = 2
       /\ get_piece(b, <<mv.from[1], IF mv.to[2] > mv.from[2] THEN 7 ELSE 0>>) = NoPiece
    \/ /\ piece.piece_type = "Pawn"
       /\ Abs(mv.to[1] - mv.from[1]) = 2
       /\ piece.color = "White"
       /\ mv.from[1] = 0

\* What a call of make_move yields: false or true, or the panic of the unwrap.
make_move_returns(b, mv) ==
    IF get_piece(b, mv.from) = NoPiece THEN "false"
    ELSE IF make_move_panics(b, mv) THEN "panic"
    ELSE "true"

make_move_castle(b, mv, piece) ==
    LET col_diff == mv.to[2] - mv.from[2]
        rook_from_col == IF col_diff > 0 THEN 7 ELSE 0
        rook_to_col == IF col_diff > 0 THEN 5 ELSE 3
        rook == get_piece(b, <<mv.from[1], rook_from_col>>)
        moved == IF Abs(col_diff) = 2
                 THEN set_piece(set_piece(b, <<mv.from[1], rook_from_col>>, NoPiece),
                                <<mv.from[1], rook_to_col>>, rook)
                 ELSE b
    IN  IF piece.piece_type # "King" THEN b
        ELSE IF piece.color = "White"
             THEN [moved EXCEPT !.white_king_pos = mv.to, !.white_king_moved = TRUE]
             ELSE [moved EXCEPT !.black_king_pos = mv.to, !.black_king_moved = TRUE]

\* The pawn branch setting the en-passant target on every pawn move.
make_move_pawn_every_step(b, mv, piece) ==
    LET en_passant_row == IF piece.color = "White" THEN mv.from[1] - 1 ELSE mv.from[1] + 1
        stepped == [b EXCEPT !.en_passant_target = <<en_passant_row, mv.from[2]>>]
    IN  IF piece.piece_type # "Pawn" THEN b
        ELSE IF mv.from[2] # mv.to[2] /\ get_piece(stepped, mv.to) = NoPiece
             THEN set_piece(stepped, <<mv.from[1], mv.to[2]>>, NoPiece)
             ELSE stepped

\* The pawn branch leaving the pawn passed by on the board.
make_move_pawn_no_removal(b, mv, piece) ==
    LET row_diff == Abs(mv.to[1] - mv.from[1])
        en_passant_row == IF piece.color = "White" THEN mv.from[1] - 1 ELSE mv.from[1] + 1
    IN  IF piece.piece_type = "Pawn" /\ row_diff = 2
        THEN [b EXCEPT !.en_passant_target = <<en_passant_row, mv.from[2]>>]
        ELSE b

make_move_pawn(b, mv, piece) ==
    LET row_diff == Abs(mv.to[1] - mv.from[1])
        en_passant_row == IF piece.color = "White" THEN mv.from[1] - 1 ELSE mv.from[1] + 1
        stepped == IF row_diff = 2
                   THEN [b EXCEPT !.en_passant_target = <<en_passant_row, mv.from[2]>>]
                   ELSE b
    IN  IF piece.piece_type # "Pawn" THEN b
        ELSE IF mv.from[2] # mv.to[2] /\ get_piece(stepped, mv.to) = NoPiece
             THEN set_piece(stepped, <<mv.from[1], mv.to[2]>>, NoPiece)
             ELSE stepped

\* Flags set by whatever piece leaves a corner in its colour's back rank.
make_move_rook_flags_any_piece(b, mv, piece) ==
    CASE piece.color = "White" /\ mv.from = <<7, 0>> -> [b EXCEPT !.white_rook_a_moved = TRUE]
      [] piece.color = "White" /\ mv.from = <<7, 7>> -> [b EXCEPT !.white_rook_h_moved = TRUE]
      [] piece.color = "Black" /\ mv.from = <<0, 0>> -> [b EXCEPT !.black_rook_a_moved = TRUE]
      [] piece.color = "Black" /\ mv.from = <<0, 7>> -> [b EXCEPT !.black_rook_h_moved = TRUE]
      [] OTHER -> b

make_move_rook_flags(b, mv, piece) ==
    IF piece.piece_type # "Rook" THEN b
    ELSE CASE piece.color = "White" /\ mv.from = <<7, 0>> -> [b EXCEPT !.white_rook_a_moved = TRUE]
           [] piece.color = "White" /\ mv.from = <<7, 7>> -> [b EXCEPT !.white_rook_h_moved = TRUE]
           [] piece.color = "Black" /\ mv.from = <<0, 0>> -> [b EXCEPT !.black_rook_a_moved = TRUE]
           [] piece.color = "Black" /\ mv.from = <<0, 7>> -> [b EXCEPT !.black_rook_h_moved = TRUE]
           [] OTHER -> b

\* A promotion that crowns the pawn a king.
final_piece_crowned(mv, piece) ==
    IF /\ piece.piece_type = "Pawn"
       /\ \/ (piece.color = "White" /\ mv.to[1] = 0)
          \/ (piece.color = "Black" /\ mv.to[1] = 7)
    THEN Piece("King", piece.color)
    ELSE piece

\* A promotion that disregards the move's choice.
final_piece_always_queen(mv, piece) ==
    IF /\ piece.piece_type = "Pawn"
       /\ \/ (piece.color = "White" /\ mv.to[1] = 0)
          \/ (piece.color = "Black" /\ mv.to[1] = 7)
    THEN Piece("Queen", piece.color)
    ELSE piece

final_piece(mv, piece) ==
    IF /\ piece.piece_type = "Pawn"
       /\ \/ (piece.color = "White" /\ mv.to[1] = 0)
          \/ (piece.color = "Black" /\ mv.to[1] = 7)
    THEN Piece(IF mv.promotion = "None" THEN "Queen" ELSE mv.promotion, piece.color)
    ELSE piece

\* A move that leaves a copy of the piece on the source square.
make_move_keeps_source(b, mv) ==
    LET piece == get_piece(b, mv.from) IN
    IF piece = NoPiece THEN b
    ELSE LET b1 == [b EXCEPT !.en_passant_target = NoSquare]
             b2 == make_move_castle(b1, mv, piece)
             b3 == make_move_pawn(b2, mv, piece)
             b4 == make_move_rook_flags(b3, mv, piece)
         IN  set_piece(b4, mv.to, final_piece(mv, piece))

make_move(b, mv) ==
    LET piece == get_piece(b, mv.from) IN
    IF piece = NoPiece THEN b
    ELSE LET b1 == [b EXCEPT !.en_passant_target = NoSquare]
             b2 == make_move_castle(b1, mv, piece)
             b3 == make_move_pawn(b2, mv, piece)
             b4 == make_move_rook_flags(b3, mv, piece)
         IN  set_piece(set_piece(b4, mv.from, NoPiece), mv.to, final_piece(mv, piece))

(***************************************************************************)
(* board.rs: is_in_check                                                   *)
(***************************************************************************)
knight_moves == << <<2, 1>>, <<2, -1>>, <<-2, 1>>, <<-2, -1>>,
                   <<1, 2>>, <<1, -2>>, <<-1, 2>>, <<-1, -2>> >>

rook_directions == << <<0, 1>>, <<0, -1>>, <<1, 0>>, <<-1, 0>> >>

bishop_directions == << <<1, 1>>, <<1, -1>>, <<-1, 1>>, <<-1, -1>> >>

queen_directions == rook_directions \o bishop_directions

king_moves == << <<1, 0>>, <<-1, 0>>, <<0, 1>>, <<0, -1>>,
                 <<1, 1>>, <<1, -1>>, <<-1, 1>>, <<-1, -1>> >>

Range(s) == {s[i] : i \in DOMAIN s}

\* The first occupied square met from (r, c) in direction (dr, dc), or NoPiece.
RECURSIVE first_on_ray(_, _, _, _, _)
first_on_ray(b, r, c, dr, dc) ==
    IF ~OnBoard(r, c) THEN NoPiece
    ELSE IF b.squares[r][c] # NoPiece THEN b.squares[r][c]
    ELSE first_on_ray(b, r + dr, c + dc, dr, dc)

is_sliding_attack_queen_only(piece, dr, dc) == piece.piece_type = "Queen"

is_sliding_attack(piece, dr, dc) ==
    CASE piece.piece_type = "Queen" -> TRUE
      [] piece.piece_type = "Rook" -> dr = 0 \/ dc = 0
      [] piece.piece_type = "Bishop" -> dr # 0 /\ dc # 0
      [] OTHER -> FALSE

king_pos_of(b, color) ==
    IF color = "White" THEN b.white_king_pos ELSE b.black_king_pos

is_in_check(b, color) ==
    LET king_pos == king_pos_of(b, color)
        opponent_color == opposite(color)
        pawn_dirs == IF color = "White" THEN {<<-1, -1>>, <<-1, 1>>} ELSE {<<1, -1>>, <<1, 1>>}
        HasAt(d, piece_type) ==
            /\ OnBoard(king_pos[1] + d[1], king_pos[2] + d[2])
            /\ b.squares[king_pos[1] + d[1]][king_pos[2] + d[2]] = Piece(piece_type, opponent_color)
    IN  \/ \E d \in Range(knight_moves) : HasAt(d, "Knight")
        \/ \E d \in Range(queen_directions) :
              LET piece == first_on_ray(b, king_pos[1] + d[1], king_pos[2] + d[2], d[1], d[2])
              IN  piece.color = opponent_color /\ is_sliding_attack(piece, d[1], d[2])
        \/ \E d \in pawn_dirs : HasAt(d, "Pawn")
        \/ \E d \in Range(king_moves) : HasAt(d, "King")

(***************************************************************************)
(* board.rs: pseudo-legal move generation, in the order the source pushes  *)
(***************************************************************************)
add_pawn_move(from, to, color) ==
    IF (color = "White" /\ to[1] = 0) \/ (color = "Black" /\ to[1] = 7)
    THEN << Move(from, to, "Queen"), Move(from, to, "Rook"),
            Move(from, to, "Bishop"), Move(from, to, "Knight") >>
    ELSE << Move(from, to, "None") >>

generate_pawn_moves(b, pos, color) ==
    LET row == pos[1]
        col == pos[2]
        direction == IF color = "White" THEN -1 ELSE 1
        start_row == IF color = "White" THEN 6 ELSE 1
        new_row == row + direction
        double_row == row + 2 * direction
        forward ==
            IF OnBoard(new_row, col) /\ b.squares[new_row][col] = NoPiece
            THEN add_pawn_move(pos, <<new_row, col>>, color)
                 \o (IF /\ row = start_row
                        /\ OnBoard(double_row, col)
                        /\ b.squares[double_row][col] = NoPiece
                     THEN add_pawn_move(pos, <<double_row, col>>, color)
                     ELSE <<>>)
            ELSE <<>>
        capture(col_offset) ==
            LET new_col == col + col_offset IN
            IF ~OnBoard(new_row, new_col) THEN <<>>
            ELSE IF b.squares[new_row][new_col] # NoPiece
                 THEN (IF b.squares[new_row][new_col].color # color
                       THEN add_pawn_move(pos, <<new_row, new_col>>, color)
                       ELSE <<>>)
                 ELSE IF b.en_passant_target # NoSquare
                         /\ <<new_row, new_col>> = b.en_passant_target
                      THEN << Move(pos, <<new_row, new_col>>, "None") >>
                      ELSE <<>>
    IN  forward \o capture(-1) \o capture(1)

RECURSIVE slide(_, _, _, _, _, _, _)
slide(b, pos, piece_color, r, c, dr, dc) ==
    IF ~OnBoard(r, c) THEN <<>>
    ELSE IF b.squares[r][c] # NoPiece
         THEN (IF b.squares[r][c].color # piece_color
               THEN << Move(pos, <<r, c>>, "None") >>
               ELSE <<>>)
         ELSE << Move(pos, <<r, c>>, "None") >>
              \o slide(b, pos, piece_color, r + dr, c + dc, dr, dc)

generate_sliding_moves(b, pos, directions) ==
    LET piece_color == get_piece(b, pos).color IN
    Flatten([i \in 1..Len(directions) |->
        slide(b, pos, piece_color, pos[1] + directions[i][1], pos[2] + directions[i][2],
              directions[i][1], directions[i][2])])

\* One-step moves (knight jumps, regular king moves): empty or enemy target.
step_moves(b, pos, piece_color, offsets) ==
    Flatten([i \in 1..Len(offsets) |->
        LET r == pos[1] + offsets[i][1]
            c == pos[2] + offsets[i][2]
        IN  IF OnBoard(r, c) /\ b.squares[r][c].color # piece_color
            THEN << Move(pos, <<r, c>>, "None") >>
            ELSE <<>>])

generate_knight_moves(b, pos) ==
    step_moves(b, pos, get_piece(b, pos).color, knight_moves)

is_valid_castling(b, mv) ==
    LET from_row == mv.from[1]
        from_col == mv.from[2]
        to_row == mv.to[1]
        to_col == mv.to[2]
        king == get_piece(b, mv.from)
        rook_col == IF to_col = 6 THEN 7 ELSE 0
        rook_moved ==
            IF to_col = 6
            THEN (IF king.color = "White" THEN b.white_rook_h_moved ELSE b.black_rook_h_moved)
            ELSE (IF king.color = "White" THEN b.white_rook_a_moved ELSE b.black_rook_a_moved)
        rook == get_piece(b, <<from_row, rook_col>>)
        start == IF from_col < to_col THEN from_col ELSE to_col
        end == IF from_col < to_col THEN to_col ELSE from_col
        intermediate_col == IF to_col = 6 THEN 5 ELSE 3
        temp_board == set_piece(set_piece(b, mv.from, NoPiece), <<from_row, intermediate_col>>, king)
        final_board == set_piece(set_piece(b, mv.from, NoPiece), <<from_row, to_col>>, king)
    IN  /\ from_row = to_row
        /\ king.piece_type = "King"
        /\ IF king.color = "White"
           THEN ~b.white_king_moved /\ from_row = 7 /\ from_col = 4
           ELSE ~b.black_king_moved /\ from_row = 0 /\ from_col = 4
        /\ to_col = 6 \/ to_col = 2
        /\ ~rook_moved
        /\ rook = Piece("Rook", king.color)
        \* for col in (start + 1)..end: the end column is excluded
        /\ \A col \in (start + 1)..(end - 1) : get_piece(b, <<from_row, col>>) = NoPiece
        /\ (to_col = 2 /\ rook_col = 0) => get_piece(b, <<from_row, 1>>) = NoPiece
        /\ ~is_in_check(b, king.color)
        /\ ~is_in_check(temp_board, king.color)
        /\ ~is_in_check(final_board, king.color)

generate_king_moves(b, pos, color) ==
    LET row == pos[1]
        col == pos[2]
        home == IF color = "White" THEN 7 ELSE 0
        king_moved == IF color = "White" THEN b.white_king_moved ELSE b.black_king_moved
        rook_h_moved == IF color = "White" THEN b.white_rook_h_moved ELSE b.black_rook_h_moved
        rook_a_moved == IF color = "White" THEN b.white_rook_a_moved ELSE b.black_rook_a_moved
        castle(to_col) == Move(pos, <<home, to_col>>, "None")
    IN  step_moves(b, pos, color, king_moves)
        \o (IF ~is_in_check(b, color) /\ ~king_moved /\ row = home /\ col = 4
            THEN (IF ~rook_h_moved /\ is_valid_castling(b, castle(6))
                  THEN << castle(6) >> ELSE <<>>)
                 \o (IF ~rook_a_moved /\ is_valid_castling(b, castle(2))
                     THEN << castle(2) >> ELSE <<>>)
            ELSE <<>>)

generate_piece_moves(b, pos, piece) ==
    CASE piece.piece_type = "Pawn" -> generate_pawn_moves(b, pos, piece.color)
      [] piece.piece_type = "Rook" -> generate_sliding_moves(b, pos, rook_directions)
      [] piece.piece_type = "Bishop" -> generate_sliding_moves(b, pos, bishop_directions)
      [] piece.piece_type = "Queen" -> generate_sliding_moves(b, pos, queen_directions)
      [] piece.piece_type = "Knight" -> generate_knight_moves(b, pos)
      [] piece.piece_type = "King" -> generate_king_moves(b, pos, piece.color)

\* for i in 0..8, unrolled: the concatenation of f(0), ..., f(7)
Cat8(f(_)) == f(0) \o f(1) \o f(2) \o f(3) \o f(4) \o f(5) \o f(6) \o f(7)

generate_raw_moves(b, color) ==
    LET in_row(row) ==
            LET on_square(col) ==
                    LET piece == b.squares[row][col] IN
                    IF piece.color = color
                    THEN generate_piece_moves(b, <<row, col>>, piece)
                    ELSE <<>>
            IN  Cat8(on_square)
    IN  Cat8(in_row)

\* generate_moves without its retain: every pseudo-legal move is kept.
retain_all(b, color, moves) == moves

\* moves.retain: drop every move that leaves the mover's king in check.
retain_safe(b, color, moves) ==
    SelectSeq(moves, LAMBDA mv : ~is_in_check(make_move(b, mv), color))

generate_moves(b, color) == retain_safe(b, color, generate_raw_moves(b, color))

(***************************************************************************)
(* ai.rs: evaluation                                                       *)
(***************************************************************************)
Sum8(f(_)) == f(0) + f(1) + f(2) + f(3) + f(4) + f(5) + f(6) + f(7)

Max(a, b) == IF a >= b THEN a ELSE b

Min(a, b) == IF a <= b THEN a ELSE b

piece_value(piece_type) ==
    CASE piece_type = "Pawn" -> 100
      [] piece_type = "Knight" -> 320
      [] piece_type = "Bishop" -> 330
      [] piece_type = "Rook" -> 500
      [] piece_type = "Queen" -> 900
      [] piece_type = "King" -> 20000

\* A per-square term summed over the board, added for White and subtracted
\* for Black.
signed_sum(b, term(_, _, _)) ==
    LET in_row(row) ==
            LET on_square(col) ==
                    LET piece == b.squares[row][col] IN
                    CASE piece.color = "White" -> term(piece, row, col)
                      [] piece.color = "Black" -> 0 - term(piece, row, col)
                      [] OTHER -> 0
            IN  Sum8(on_square)
    IN  Sum8(in_row)

material_evaluation(b) ==
    signed_sum(b, LAMBDA piece, row, col : piece_value(piece.piece_type))

pawn_table ==
    << <<0, 0, 0, 0, 0, 0, 0, 0>>,
       <<50, 50, 50, 50, 50, 50, 50, 50>>,
       <<10, 10, 20, 30, 30, 20, 10, 10>>,
       <<5, 5, 10, 25, 25, 10, 5, 5>>,
       <<0, 0, 0, 20, 20, 0, 0, 0>>,
       <<5, -5, -10, 0, 0, -10, -5, 5>>,
       <<5, 10, 10, -20, -20, 10, 10, 5>>,
       <<0, 0, 0, 0, 0, 0, 0, 0>> >>

knight_table ==
    << <<-50, -40, -30, -30, -30, -30, -40, -50>>,
       <<-40, -20, 0, 0, 0, 0, -20, -40>>,
       <<-30, 0, 10, 15, 15, 10, 0, -30>>,
       <<-30, 5, 15, 20, 20, 15, 5, -30>>,
       <<-30, 0, 15, 20, 20, 15, 0, -30>>,
       <<-30, 5, 10, 15, 15, 10, 5, -30>>,
       <<-40, -20, 0, 5, 5, 0, -20, -40>>,
       <<-50, -40, -30, -30, -30, -30, -40, -50>> >>

\* The tables read from the same end for both colours.
position_bonus_unmirrored(piece, row, col) ==
    CASE piece.piece_type = "Pawn" -> pawn_table[row + 1][col + 1]
      [] piece.piece_type = "Knight" -> knight_table[row + 1][col + 1]
      [] OTHER -> 0

\* table[r][col] of the source, whose indices start at 0
position_bonus(piece, row, col) ==
    LET r == IF piece.color = "White" THEN 7 - row ELSE row IN
    CASE piece.piece_type = "Pawn" -> pawn_table[r + 1][col + 1]
      [] piece.piece_type = "Knight" -> knight_table[r + 1][col + 1]
      [] OTHER -> 0

positional_evaluation(b) == signed_sum(b, position_bonus)

\* A king-safety term that counts a check of the White king only.
king_safety_white_only(b) == IF is_in_check(b, "White") THEN -50 ELSE 0

king_safety_evaluation(b) ==
    (IF is_in_check(b, "White") THEN -50 ELSE 0)
    + (IF is_in_check(b, "Black") THEN 50 ELSE 0)

mobility_evaluation(b) ==
    (Len(generate_moves(b, "White")) - Len(generate_moves(b, "Black"))) * 5

evaluate(b) ==
    material_evaluation(b) + positional_evaluation(b)
    + king_safety_evaluation(b) + mobility_evaluation(b)

(***************************************************************************)
(* ai.rs: Zobrist hash, transposition table, move ordering                 *)
(***************************************************************************)
\* i32::MIN and i32::MAX
I32_MIN == -2147483647 - 1
I32_MAX == 2147483647

\* Option<Move>::None
NoMove == [from |-> NoSquare, to |-> NoSquare, promotion |-> "None"]

piece_type_index(piece_type) ==
    CASE piece_type = "Pawn" -> 0
      [] piece_type = "Rook" -> 1
      [] piece_type = "Knight" -> 2
      [] piece_type = "Bishop" -> 3
      [] piece_type = "Queen" -> 4
      [] piece_type = "King" -> 5

\* init_zobrist draws one 64-bit key per seed: seed square * 12 +
\* piece_type * 2 + color for a piece on a square, seed 888888 + i for
\* castling key i.  A hash is the XOR of a set of distinct keys; it is
\* modelled by the set of their seeds, i.e. the keys are taken to be free of
\* XOR collisions.
zobrist_pieces(square, piece_type, color) == square * 12 + piece_type * 2 + color

zobrist_castling(i) == 888888 + i

\* A hash that folds in a key for the en-passant target as well.
get_board_hash_with_target(b) ==
    { zobrist_pieces(pos[1] * 8 + pos[2],
                     piece_type_index(get_piece(b, pos).piece_type),
                     IF get_piece(b, pos).color = "White" THEN 0 ELSE 1) :
        pos \in {q \in (0..7) \X (0..7) : get_piece(b, q) # NoPiece} }
    \cup (IF ~b.white_king_moved THEN {zobrist_castling(0)} ELSE {})
    \cup (IF ~b.white_rook_a_moved THEN {zobrist_castling(1)} ELSE {})
    \cup (IF ~b.black_king_moved THEN {zobrist_castling(2)} ELSE {})
    \cup (IF ~b.black_rook_a_moved THEN {zobrist_castling(3)} ELSE {})
    \cup (IF b.en_passant_target # NoSquare
          THEN {777777 + b.en_passant_target[1] * 8 + b.en_passant_target[2]} ELSE {})

get_board_hash(b) ==
    { zobrist_pieces(pos[1] * 8 + pos[2],
                     piece_type_index(get_piece(b, pos).piece_type),
                     IF get_piece(b, pos).color = "White" THEN 0 ELSE 1) :
        pos \in {q \in (0..7) \X (0..7) : get_piece(b, q) # NoPiece} }
    \cup (IF ~b.white_king_moved THEN {zobrist_castling(0)} ELSE {})
    \cup (IF ~b.white_rook_a_moved THEN {zobrist_castling(1)} ELSE {})
    \cup (IF ~b.black_king_moved THEN {zobrist_castling(2)} ELSE {})
    \cup (IF ~b.black_rook_a_moved THEN {zobrist_castling(3)} ELSE {})

TranspositionEntry(depth, score, best_move, node_type) ==
    [depth |-> depth, score |-> score, best_move |-> best_move, node_type |-> node_type]

\* HashMap::insert: an entry under the same key is overwritten.
tt_insert(table, key, entry) ==
    [k \in DOMAIN table \cup {key} |-> IF k = key THEN entry ELSE table[k]]

center_bonus(to) ==
    CASE to \in {<<3, 3>>, <<3, 4>>, <<4, 3>>, <<4, 4>>} -> 50
      [] to \in {<<2, 2>>, <<2, 3>>, <<2, 4>>, <<2, 5>>, <<3, 2>>, <<3, 5>>,
                 <<4, 2>>, <<4, 5>>, <<5, 2>>, <<5, 3>>, <<5, 4>>, <<5, 5>>} -> 20
      [] OTHER -> 0

\* The closure of sort_by_cached_key before its final negation; cached_best
\* is the best move of the table's entry for the position (NoMove if the
\* table has no entry or the entry holds None).
ordering_score(cached_best, b, mv) ==
    LET mover == get_piece(b, mv.from)
        victim == get_piece(b, mv.to)
    IN  (IF cached_best = mv THEN 10000 ELSE 0)
        + (IF victim # NoPiece
           THEN piece_value(victim.piece_type) * 10 - piece_value(mover.piece_type)
           ELSE 0)
        + (IF is_in_check(make_move(b, mv), opposite(mover.color)) THEN 500 ELSE 0)
        + (IF mover.piece_type = "King" /\ Abs(mv.to[2] - mv.from[2]) = 2 THEN 300 ELSE 0)
        + center_bonus(mv.to)

\* Stable sort by ascending key: the element at index i goes to the place
\* given by the number of elements that sort before it.
stable_sort_by_key(seq, key) ==
    LET place == SubSeq([i \in 1..Len(seq) |->
                    Cardinality({j \in 1..Len(seq) :
                        key[j] < key[i] \/ (key[j] = key[i] /\ j < i)}) + 1],
                    1, Len(seq))
    IN  [p \in 1..Len(seq) |-> seq[CHOOSE i \in 1..Len(seq) : place[i] = p]]

\* sort_by_cached_key: each key is computed once.
advanced_move_ordering(table, moves, b) ==
    LET board_hash == get_board_hash(b)
        cached_best == IF board_hash \in DOMAIN table
                       THEN table[board_hash].best_move ELSE NoMove
        key == SubSeq([i \in 1..Len(moves) |-> 0 - ordering_score(cached_best, b, moves[i])],
                      1, Len(moves))
    IN  SubSeq(stable_sort_by_key(moves, key), 1, Len(moves))

(***************************************************************************)
(* ai.rs: minimax_with_tt.  The searcher state s carries the engine's      *)
(* transposition_table and nodes_searched, and the clock: s.budget is the  *)
(* number of further readings of start_time.elapsed() that still find the  *)
(* time limit not exceeded (-1: the limit is not reached in this call).    *)
(* The clock is monotonic: once a reading exceeds the limit, all do.       *)
(* s.mated is history: the checkmated nodes scored so far, each with its    *)
(* remaining depth, the side to move (maximizing: White is mated) and the   *)
(* score returned for it.                                                   *)
(***************************************************************************)
Searcher(table, nodes_searched, budget, mated) ==
    [transposition_table |-> table, nodes_searched |-> nodes_searched, budget |-> budget,
     mated |-> mated]

MatedNode(depth, maximizing, score) ==
    [depth |-> depth, maximizing |-> maximizing, score |-> score]

time_exceeded(s) == s.budget = 0

\* A clock reading within the limit, followed by self.nodes_searched += 1.
enter_node(s) ==
    [s EXCEPT !.budget = IF @ > 0 THEN @ - 1 ELSE @,
              !.nodes_searched = @ + 1]

SearchResult(score, s) == [score |-> score, s |-> s]

mate_score(maximizing, depth) ==
    IF maximizing THEN -100000 + depth ELSE 100000 - depth

node_type_of(best_score, original_alpha, beta) ==
    IF best_score <= original_alpha THEN "UpperBound"
    ELSE IF best_score >= beta THEN "LowerBound"
    ELSE "Exact"

RECURSIVE minimax_with_tt(_, _, _, _, _, _)
RECURSIVE scan_moves(_, _, _, _, _, _)

\* The body of the loop over a node's moves after the recursive call has
\* returned r: w holds the loop's variables alpha, beta, best_score,
\* best_move and the searcher.
scan_update(w, mv, r, maximizing) ==
    [s |-> r.s,
     alpha |-> IF maximizing THEN Max(w.alpha, r.score) ELSE w.alpha,
     beta |-> IF maximizing THEN w.beta ELSE Min(w.beta, r.score),
     best_score |-> IF (IF maximizing THEN r.score > w.best_score
                                      ELSE r.score < w.best_score)
                    THEN r.score ELSE w.best_score,
     best_move |-> IF (IF maximizing THEN r.score > w.best_score
                                     ELSE r.score < w.best_score)
                   THEN mv ELSE w.best_move]

\* if beta <= alpha { break }, else the loop goes on with the next move.
scan_next(w, b, depth, moves, i, maximizing) ==
    IF w.beta <= w.alpha THEN w
    ELSE scan_moves(w, b, depth, moves, i + 1, maximizing)

\* The loop over the ordered moves of a node, from index i on.
scan_moves(w, b, depth, moves, i, maximizing) ==
    IF i > Len(moves) THEN w
    ELSE scan_next(
            scan_update(w, moves[i],
                        minimax_with_tt(w.s, make_move(b, moves[i]), depth - 1,
                                        w.alpha, w.beta, ~maximizing),
                        maximizing),
            b, depth, moves, i, maximizing)

\* The end of a node: the entry is stored and best_score returned.
store_entry(w, board_hash, depth, original_alpha) ==
    SearchResult(w.best_score,
        [w.s EXCEPT !.transposition_table =
            tt_insert(@, board_hash,
                      TranspositionEntry(depth, w.best_score, w.best_move,
                          node_type_of(w.best_score, original_alpha, w.beta)))])

\* A node from generate_moves on: mate or stalemate, or the loop over the
\* ordered moves.
search_moves(s, b, depth, alpha, beta, maximizing, board_hash, moves) ==
    IF moves = <<>>
    THEN IF is_in_check(b, IF maximizing THEN "White" ELSE "Black")
         THEN SearchResult(mate_score(maximizing, depth),
                  [s EXCEPT !.mated = @ \cup
                      {MatedNode(depth, maximizing, mate_score(maximizing, depth))}])
         ELSE SearchResult(0, s)
    ELSE store_entry(
            scan_moves([s |-> s, alpha |-> alpha, beta |-> beta,
                        best_score |-> IF maximizing THEN I32_MIN ELSE I32_MAX,
                        best_move |-> NoMove],
                       b, depth, advanced_move_ordering(s.transposition_table, moves, b),
                       1, maximizing),
            board_hash, depth, alpha)

\* The lookup in the transposition table: hit is "an entry of at least this
\* depth exists".
probe_table(s, b, depth, alpha, beta, maximizing, board_hash, hit) ==
    LET entry == s.transposition_table[board_hash]
        alpha1 == IF hit /\ entry.node_type = "LowerBound"
                  THEN Max(alpha, entry.score) ELSE alpha
        beta1 == IF hit /\ entry.node_type = "UpperBound"
                 THEN Min(beta, entry.score) ELSE beta
    IN  IF hit /\ (entry.node_type = "Exact" \/ alpha1 >= beta1)
        THEN SearchResult(entry.score, s)
        ELSE search_moves(s, b, depth, alpha1, beta1, maximizing, board_hash,
                          generate_moves(b, IF maximizing THEN "White" ELSE "Black"))

\* A lookup that takes an entry of any depth.
tt_hit_any_depth(table, board_hash, depth) == board_hash \in DOMAIN table

tt_hit(table, board_hash, depth) ==
    board_hash \in DOMAIN table /\ table[board_hash].depth >= depth

\* A search that reads the clock only after it has counted the node and
\* handled depth 0.
minimax_with_tt_late_clock(s, b, depth, alpha, beta, maximizing) ==
    IF depth = 0 THEN SearchResult(evaluate(b), enter_node(s))
    ELSE IF time_exceeded(s) THEN SearchResult(evaluate(b), s)
    ELSE probe_table(enter_node(s), b, depth, alpha, beta, maximizing, get_board_hash(b),
                     tt_hit(s.transposition_table, get_board_hash(b), depth))

minimax_with_tt(s, b, depth, alpha, beta, maximizing) ==
    IF time_exceeded(s) THEN SearchResult(evaluate(b), s)
    ELSE IF depth = 0 THEN SearchResult(evaluate(b), enter_node(s))
    ELSE probe_table(enter_node(s), b, depth, alpha, beta, maximizing, get_board_hash(b),
                     tt_hit(s.transposition_table, get_board_hash(b), depth))

(***************************************************************************)
(* ChessAI::new, and the frame of a get_best_move call                     *)
(***************************************************************************)
\* other_entries counts the entries the table holds under the keys of
\* positions that no search of the model visits: they are never looked up
\* or overwritten, and only their number matters.
ChessAI_new(max_depth) ==
    [max_depth |-> max_depth,
     transposition_table |-> <<>>,
     other_entries |-> 0,
     nodes_searched |-> 0]

\* ChessGame::new(), ChessApp::new(): the game is being played, the AI is
\* not thinking, nothing is selected and no promotion awaits its choice.
AppIdle ==
    /\ game_state = "Playing"
    /\ ai_thinking = FALSE
    /\ ai_move_start = FALSE
    /\ ai_difficulty = "Medium"
    /\ selected_square = NoSquare
    /\ valid_moves = <<>>
    /\ promotion_pending = NoMove
    /\ called = NoMove
    /\ returned = FALSE

\* No search is running.
SearchIdle ==
    /\ ai = ChessAI_new(0)
    /\ pc = "idle"
    /\ id_depth = 0
    /\ id_best_move = NoMove
    /\ sd_moves = <<>>
    /\ sd_index = 0
    /\ sd_best = [move |-> NoMove, score |-> 0]
    /\ elapsed = 0
    /\ result = NoMove
    /\ complete_move = NoMove
    /\ cut_short = FALSE
    /\ mates = {}

(***************************************************************************)
(* Legal play from the standard start (game.rs: ChessGame::make_move):     *)
(* a move is applied only if generate_moves of the player to move contains *)
(* it, and the players alternate.  Play follows one of the opening lines   *)
(* below, every move of which must itself be legal, and then continues     *)
(* with up to MaxFree arbitrary legal moves.                               *)
(***************************************************************************)
MaxFree == 1

M(from_row, from_col, to_row, to_col) ==
    Move(<<from_row, from_col>>, <<to_row, to_col>>, "None")

\* 1.e4 e5 2.Be2: f1 is empty while the knight still stands on g1.
LineKnightHome == << M(6, 4, 4, 4), M(1, 4, 3, 4), M(7, 5, 6, 4) >>

\* 1.e4 e5 2.Nf3 Nc6 3.Bc4 Bc5: f1 and g1 are empty and unattacked.
LineItalian == << M(6, 4, 4, 4), M(1, 4, 3, 4), M(7, 6, 5, 5), M(0, 1, 2, 2),
                  M(7, 5, 4, 2), M(0, 5, 3, 2) >>

\* 1.g3 b6 2.Bg2 Ba6 3.Nf3 e6 4.e3 h6: the bishop on a6 attacks f1.
LineBishopA6 == << M(6, 6, 5, 6), M(1, 1, 2, 1), M(7, 5, 6, 6), M(0, 2, 2, 0),
                   M(7, 6, 5, 5), M(1, 4, 2, 4), M(6, 4, 5, 4), M(1, 7, 2, 7) >>

\* 1.e4 d5 2.Bb5+: Black is in check.
LineCheck == << M(6, 4, 4, 4), M(1, 3, 3, 3), M(7, 5, 3, 1) >>

\* 1.a4 b6 2.Ra3 Bb7 3.g4 Bxh1 4.h4 a6 5.Rh3 a5 6.Rxh1 h6 7.Nf3 g6 8.Bg2 f6:
\* the rook of h1 was captured at home and the rook of a1 now stands on h1.
LineRookSwap == << M(6, 0, 4, 0), M(1, 1, 2, 1), M(7, 0, 5, 0), M(0, 2, 1, 1),
                   M(6, 6, 4, 6), M(1, 1, 7, 7), M(6, 7, 4, 7), M(1, 0, 2, 0),
                   M(5, 0, 5, 7), M(2, 0, 3, 0), M(5, 7, 7, 7), M(1, 7, 2, 7),
                   M(7, 6, 5, 5), M(1, 6, 2, 6), M(7, 5, 6, 6), M(1, 5, 2, 5) >>

\* 1.e4 a6 2.e5 d5: Black's d-pawn has just passed the pawn on e5.
LineEnPassant == << M(6, 4, 4, 4), M(1, 0, 2, 0), M(4, 4, 3, 4), M(1, 3, 3, 3) >>

\* 1.h4 g5 2.hxg5 a6 3.g6 a5 4.gxh7 a4 5.hxg8=N: a pawn promotes.
LinePromotion == << M(6, 7, 4, 7), M(1, 6, 3, 6), M(4, 7, 3, 6), M(1, 0, 2, 0),
                    M(3, 6, 2, 6), M(2, 0, 3, 0), M(2, 6, 1, 7), M(3, 0, 4, 0),
                    Move(<<1, 7>>, <<0, 6>>, "Knight") >>

\* LineEnPassant followed by 3.exd6, the capture en passant.
LineEnPassantTaken == LineEnPassant \o << M(3, 4, 2, 3) >>

\* 1.a3 d5 2.a4 d4 3.e4 dxe3: Black captures en passant.
LineEnPassantBlack == << M(6, 0, 5, 0), M(1, 3, 3, 3), M(5, 0, 4, 0), M(3, 3, 4, 3),
                         M(6, 4, 4, 4), M(4, 3, 5, 4) >>

Lines == << <<>>, LineItalian, LineCheck, LineKnightHome, LineBishopA6, LineRookSwap,
            LineEnPassant, LinePromotion, LineEnPassantTaken, LineEnPassantBlack >>

\* The lines after which play goes on with arbitrary legal moves: the
\* standard start (the empty line), LineItalian and LineCheck.
FreeLines == {1, 2, 3}

Corners == { <<7, 0>>, <<7, 7>>, <<0, 0>>, <<0, 7>> }

is_castling(b, mv) ==
    get_piece(b, mv.from).piece_type = "King" /\ Abs(mv.to[2] - mv.from[2]) = 2

\* The corner a castling move takes its rook from.
castling_corner(mv) == <<mv.from[1], IF mv.to[2] > mv.from[2] THEN 7 ELSE 0>>

Init ==
    /\ board = Board_new
    /\ current_player = "White"
    /\ line \in 1..Len(Lines)
    /\ step = 0
    /\ free = 0
    /\ rook_intact = [c \in Corners |-> TRUE]
    /\ king_stayed = [c \in Colors |-> TRUE]
    /\ SearchIdle
    /\ AppIdle

\* ChessGame::make_move once the move has passed its validity test: the
\* board applies it and the player to move flips.
PlayMove(mv) ==
    LET piece == get_piece(board, mv.from) IN
    /\ board' = make_move(board, mv)
    /\ current_player' = opposite(current_player)
    \* history: has the king of a side ever moved, has a corner rook ever
    \* left its corner or been captured on it
    /\ king_stayed' = [king_stayed EXCEPT ![piece.color] = @ /\ piece.piece_type # "King"]
    /\ rook_intact' = [c \in Corners |->
          /\ rook_intact[c]
          /\ mv.from # c
          /\ mv.to # c
          /\ ~(is_castling(board, mv) /\ castling_corner(mv) = c)]

BookMove ==
    /\ free = 0
    /\ step < Len(Lines[line])
    /\ Lines[line][step + 1] \in Range(generate_moves(board, current_player))
    /\ PlayMove(Lines[line][step + 1])
    /\ step' = step + 1
    /\ UNCHANGED <<app_vars, line, free, search_vars>>

FreeMove ==
    /\ line \in FreeLines
    /\ step = Len(Lines[line])
    /\ free < MaxFree
    /\ \E mv \in Range(generate_moves(board, current_player)) : PlayMove(mv)
    /\ free' = free + 1
    /\ UNCHANGED <<app_vars, line, step, search_vars>>

Next == BookMove \/ FreeMove

Spec == Init /\ [][Next]_vars

(***************************************************************************)
(* Properties of legal play                                                *)
(***************************************************************************)
\* The squares on which a king of the given colour actually stands.
king_squares(b, color) ==
    {pos \in (0..7) \X (0..7) : get_piece(b, pos) = Piece("King", color)}

\* Some pseudo-legal move of by_color (a move generate_raw_moves would
\* return) lands on the square pos.
attacked_by_moves(b, pos, by_color) ==
    \E from \in (0..7) \X (0..7) :
        /\ get_piece(b, from).color = by_color
        /\ \E mv \in Range(generate_piece_moves(b, from, get_piece(b, from))) : mv.to = pos

\* The king of a castling move, put on the square pos with its cache entry.
king_placed(b, mv, pos) ==
    LET king == get_piece(b, mv.from)
        placed == set_piece(set_piece(b, mv.from, NoPiece), pos, king)
    IN  IF king.color = "White"
        THEN [placed EXCEPT !.white_king_pos = pos]
        ELSE [placed EXCEPT !.black_king_pos = pos]

\* The squares strictly between the king and the rook of a castling move.
between_king_and_rook(mv) ==
    IF mv.to[2] > mv.from[2]
    THEN {<<mv.from[1], col>> : col \in {5, 6}}
    ELSE {<<mv.from[1], col>> : col \in {1, 2, 3}}

\* The square the king of a castling move passes over.
crossed_square(mv) == <<mv.from[1], IF mv.to[2] > mv.from[2] THEN 5 ELSE 3>>

castling_offered(color) ==
    {mv \in Range(generate_moves(board, color)) : is_castling(board, mv)}

\* C1: every move generate_moves returns for a side, applied to a clone of
\* the position, leaves that side's king out of check: is_in_check is false
\* on the clone and no pseudo-legal move of the opponent lands on the square
\* where the king stands.
C1_LegalMovesLeaveKingSafe ==
    \A color \in Colors :
        \A mv \in Range(generate_moves(board, color)) :
            LET clone == make_move(board, mv) IN
            /\ ~is_in_check(clone, color)
            /\ \A pos \in king_squares(clone, color) :
                  ~attacked_by_moves(clone, pos, opposite(color))

\* C1 witness: a side has legal moves and the filter has dropped at least
\* one pseudo-legal move of that side.
C1_Witness ==
    \E color \in Colors :
        /\ Len(generate_moves(board, color)) > 0
        /\ Len(generate_moves(board, color)) < Len(generate_raw_moves(board, color))

\* C4: castling is offered only if every square strictly between the king
\* and the castling rook is empty.
C4_CastlingPathEmpty ==
    \A color \in Colors :
        \A mv \in castling_offered(color) :
            \A pos \in between_king_and_rook(mv) : get_piece(board, pos) = NoPiece

\* C5: castling is offered only if neither the square the king passes over
\* nor its destination is attacked once the king is placed there.
C5_CastlingNotThroughAttack ==
    \A color \in Colors :
        \A mv \in castling_offered(color) :
            /\ ~is_in_check(king_placed(board, mv, crossed_square(mv)), color)
            /\ ~is_in_check(king_placed(board, mv, mv.to), color)

\* C7: in legal play from the standard start the board holds exactly one
\* white king and exactly one black king.
C7_OneKingPerSide ==
    \A color \in Colors : Cardinality(king_squares(board, color)) = 1

\* C7 witness: the white king has left its home square by a legal move.
C7_Witness ==
    /\ free > 0
    /\ get_piece(board, <<7, 4>>).piece_type # "King"
    /\ ~king_stayed["White"]

\* C10: castling with a corner rook is offered only if the king of that side
\* has never moved and the rook on that corner is the original one, never
\* moved and never captured.
C10_CastlingNeedsUnmovedPieces ==
    \A color \in Colors :
        \A mv \in castling_offered(color) :
            king_stayed[color] /\ rook_intact[castling_corner(mv)]

(***************************************************************************)
(* One get_best_move call (ai.rs: iterative_deepening, search_depth), one  *)
(* action per step of its two loops.  The clock is read where the source   *)
(* reads start_time.elapsed(); a reading is 0 (at most time_limit / 2),    *)
(* 1 (more than time_limit / 2, at most time_limit) or 2 (more than        *)
(* time_limit), and readings never decrease.                               *)
(***************************************************************************)
MaxDepth == 2
MaxBudget == 1

\* A position set up as the tests of ai.rs do: Board::new(), the squares
\* cleared, pieces put with set_piece, and the king squares assigned.
Position(placed, white_king_pos, black_king_pos) ==
    [Board_new EXCEPT
        !.squares = [row \in 0..7 |-> [col \in 0..7 |->
            IF <<row, col>> \in DOMAIN placed THEN placed[<<row, col>>] ELSE NoPiece]],
        !.white_king_pos = white_king_pos,
        !.black_king_pos = black_king_pos]

\* test_evaluation_for_checkmate: Black king a8, White queen a7, White king b6.
MatePosition ==
    Position(<<0, 0>> :> Piece("King", "Black") @@ <<1, 0>> :> Piece("Queen", "White")
             @@ <<2, 1>> :> Piece("King", "White"), <<2, 1>>, <<0, 0>>)

\* Black king a8, White queen c7, White king h1: Black has no move and is
\* not in check.
StalematePosition ==
    Position(<<0, 0>> :> Piece("King", "Black") @@ <<1, 2>> :> Piece("Queen", "White")
             @@ <<7, 7>> :> Piece("King", "White"), <<7, 7>>, <<0, 0>>)

\* White king g1 in check from the rook on g8; White's rook a1 could take the
\* pawn on a7 only by leaving the king in check.
CheckPosition ==
    Position(<<7, 6>> :> Piece("King", "White") @@ <<7, 0>> :> Piece("Rook", "White")
             @@ <<0, 6>> :> Piece("Rook", "Black") @@ <<0, 7>> :> Piece("King", "Black")
             @@ <<1, 0>> :> Piece("Pawn", "Black"), <<7, 6>>, <<0, 7>>)

\* The calls explored: get_best_move(position, side).
SearchInputs ==
    { <<MatePosition, "Black">>, <<StalematePosition, "Black">>,
      <<CheckPosition, "White">>, <<CheckPosition, "Black">> }

PlayIdle ==
    /\ AppIdle
    /\ line = 1
    /\ step = 0
    /\ free = 0
    /\ rook_intact = [c \in Corners |-> TRUE]
    /\ king_stayed = [c \in Colors |-> TRUE]

\* A ChessAI of the given max_depth is about to be asked for a move.
CallPending(max_depth) ==
    /\ PlayIdle
    /\ ai = ChessAI_new(max_depth)
    /\ pc = "call"
    /\ id_depth = 0
    /\ id_best_move = NoMove
    /\ sd_moves = <<>>
    /\ sd_index = 0
    /\ sd_best = [move |-> NoMove, score |-> 0]
    /\ elapsed = 0
    /\ result = NoMove
    /\ complete_move = NoMove
    /\ cut_short = FALSE
    /\ mates = {}

InitAI ==
    /\ \E input \in SearchInputs : board = input[1] /\ current_player = input[2]
    /\ \E max_depth \in 0..MaxDepth : CallPending(max_depth)

\* search_depth taking the pseudo-legal moves, without the legality filter.
root_moves_unfiltered(b, color) == generate_raw_moves(b, color)

\* search_depth: let mut moves = board.generate_moves(color).
root_moves(b, color) == generate_moves(b, color)

\* The threshold of iterative_deepening's test of the table's size.
TableLimit == 100000

\* transposition_table.len(): the entries of the positions searched in the
\* model and those of other positions.
table_len(engine) ==
    Cardinality(DOMAIN engine.transposition_table) + engine.other_entries

\* A table cleared as soon as it has reached the threshold.
cleared_if_reached(engine) ==
    IF table_len(engine) >= TableLimit
    THEN [engine EXCEPT !.transposition_table = <<>>, !.other_entries = 0]
    ELSE engine

\* if self.transposition_table.len() > 100000 { clear() }
cleared_if_over(engine) ==
    IF table_len(engine) > TableLimit
    THEN [engine EXCEPT !.transposition_table = <<>>, !.other_entries = 0]
    ELSE engine

\* iterative_deepening up to its loop: start_time = Instant::now(), and the
\* table is cleared if it holds more than 100000 entries.
GetBestMove ==
    /\ pc = "call"
    /\ pc' = "loop"
    /\ elapsed' = 0
    /\ id_best_move' = NoMove
    /\ id_depth' = 1
    /\ ai' = cleared_if_over(ai)
    /\ UNCHANGED <<app_vars, board, current_player, play_vars, sd_moves, sd_index, sd_best,
                   result, complete_move, cut_short, mates>>

\* for depth in 1..=self.max_depth: the range is exhausted.
LoopExit ==
    /\ pc = "loop"
    /\ id_depth > ai.max_depth
    /\ pc' = "done"
    /\ result' = id_best_move
    /\ UNCHANGED <<app_vars, board, current_player, play_vars, ai, id_depth, id_best_move,
                   sd_moves, sd_index, sd_best, elapsed, complete_move, cut_short, mates>>

\* The reading at the top of the loop exceeds time_limit: break.
LoopTimeout ==
    /\ pc = "loop"
    /\ id_depth <= ai.max_depth
    /\ elapsed' = 2
    /\ pc' = "done"
    /\ result' = id_best_move
    /\ UNCHANGED <<app_vars, board, current_player, play_vars, ai, id_depth, id_best_move,
                   sd_moves, sd_index, sd_best, complete_move, cut_short, mates>>

\* search_depth is entered and finds no legal move: it returns None and the
\* loop goes on with the next depth.
SearchDepthEmpty ==
    /\ pc = "loop"
    /\ id_depth <= ai.max_depth
    /\ \E now \in {t \in 0..1 : t >= elapsed} : elapsed' = now
    /\ root_moves(board, current_player) = <<>>
    /\ ai' = [ai EXCEPT !.nodes_searched = 0]
    /\ id_depth' = id_depth + 1
    /\ UNCHANGED <<app_vars, board, current_player, play_vars, pc, id_best_move, sd_moves,
                   sd_index, sd_best, result, complete_move, cut_short, mates>>

\* search_depth is entered, orders the legal moves and starts its loop with
\* best_move = moves[0].
SearchDepthBegin ==
    /\ pc = "loop"
    /\ id_depth <= ai.max_depth
    /\ \E now \in {t \in 0..1 : t >= elapsed} : elapsed' = now
    /\ root_moves(board, current_player) # <<>>
    /\ ai' = [ai EXCEPT !.nodes_searched = 0]
    /\ sd_moves' = advanced_move_ordering(ai.transposition_table,
                                          root_moves(board, current_player), board)
    /\ sd_best' = [move |-> sd_moves'[1],
                   score |-> IF current_player = "White" THEN I32_MIN ELSE I32_MAX]
    /\ sd_index' = 1
    /\ cut_short' = FALSE
    /\ mates' = {}
    /\ pc' = "scan"
    /\ UNCHANGED <<app_vars, board, current_player, play_vars, id_depth, id_best_move, result,
                   complete_move>>

\* The body of the loop over the root moves once minimax_with_tt has
\* returned r for the move mv.
scan_root(mv, r) ==
    /\ ai' = [ai EXCEPT !.transposition_table = r.s.transposition_table,
                       !.nodes_searched = r.s.nodes_searched]
    /\ sd_best' = IF \/ (current_player = "White" /\ r.score > sd_best.score)
                     \/ (current_player = "Black" /\ r.score < sd_best.score)
                  THEN [move |-> mv, score |-> r.score] ELSE sd_best
    /\ elapsed' = IF time_exceeded(r.s) THEN 2 ELSE elapsed
    /\ cut_short' = time_exceeded(r.s)
    /\ mates' = r.s.mated

\* One pass of the loop over the root moves: the reading is within the
\* limit, the move is searched, and the best move is updated.  The limit is
\* passed after budget further readings inside minimax_with_tt, or not at all.
ScanMove ==
    /\ pc = "scan"
    /\ sd_index <= Len(sd_moves)
    /\ elapsed < 2
    /\ \E budget \in -1..MaxBudget :
        scan_root(sd_moves[sd_index],
                  minimax_with_tt(
                      Searcher(ai.transposition_table, ai.nodes_searched, budget, mates),
                      make_move(board, sd_moves[sd_index]), id_depth - 1, I32_MIN, I32_MAX,
                      current_player = "Black"))
    /\ sd_index' = sd_index + 1
    /\ UNCHANGED <<app_vars, board, current_player, play_vars, pc, id_depth, id_best_move,
                   sd_moves, result, complete_move>>

\* The reading at the top of the loop over the root moves exceeds
\* time_limit: break, and search_depth returns Some(best_move).
ScanBreak ==
    /\ pc = "scan"
    /\ sd_index <= Len(sd_moves)
    /\ elapsed' = 2
    /\ cut_short' = TRUE
    /\ pc' = "returned"
    /\ UNCHANGED <<app_vars, board, current_player, play_vars, ai, id_depth, id_best_move,
                   sd_moves, sd_index, sd_best, result, complete_move, mates>>

\* The loop over the root moves is exhausted: search_depth returns
\* Some(best_move).
ScanEnd ==
    /\ pc = "scan"
    /\ sd_index > Len(sd_moves)
    /\ pc' = "returned"
    /\ UNCHANGED <<app_vars, board, current_player, play_vars, ai, id_depth, id_best_move,
                   sd_moves, sd_index, sd_best, elapsed, result, complete_move,
                   cut_short, mates>>

\* An end of iteration that goes on until the whole limit is exceeded.
IterationEnd_to_the_limit ==
    /\ pc = "returned"
    /\ id_best_move' = sd_best.move
    /\ complete_move' = IF cut_short THEN complete_move ELSE sd_best.move
    /\ \E now \in {t \in 0..2 : t >= elapsed} :
        /\ elapsed' = now
        /\ IF now >= 2
           THEN pc' = "done" /\ result' = sd_best.move /\ id_depth' = id_depth
           ELSE pc' = "loop" /\ result' = result /\ id_depth' = id_depth + 1
    /\ UNCHANGED <<app_vars, board, current_player, play_vars, ai, sd_moves, sd_index, sd_best,
                   cut_short, mates>>

\* An end of iteration after which the loop repeats the same depth.
IterationEnd_same_depth ==
    /\ pc = "returned"
    /\ id_best_move' = sd_best.move
    /\ complete_move' = IF cut_short THEN complete_move ELSE sd_best.move
    /\ \E now \in {t \in 0..2 : t >= elapsed} :
        /\ elapsed' = now
        /\ IF now >= 1
           THEN pc' = "done" /\ result' = sd_best.move /\ id_depth' = id_depth
           ELSE pc' = "loop" /\ result' = result /\ id_depth' = id_depth
    /\ UNCHANGED <<app_vars, board, current_player, play_vars, ai, sd_moves, sd_index, sd_best,
                   cut_short, mates>>

\* if let Some(mv) = result: best_move = Some(mv), then break if the reading
\* exceeds time_limit / 2, else go on with the next depth.
IterationEnd ==
    /\ pc = "returned"
    /\ id_best_move' = sd_best.move
    /\ complete_move' = IF cut_short THEN complete_move ELSE sd_best.move
    /\ \E now \in {t \in 0..2 : t >= elapsed} :
        /\ elapsed' = now
        /\ IF now >= 1
           THEN pc' = "done" /\ result' = sd_best.move /\ id_depth' = id_depth
           ELSE pc' = "loop" /\ result' = result /\ id_depth' = id_depth + 1
    /\ UNCHANGED <<app_vars, board, current_player, play_vars, ai, sd_moves, sd_index, sd_best,
                   cut_short, mates>>

NextAI ==
    \/ GetBestMove
    \/ LoopExit
    \/ LoopTimeout
    \/ SearchDepthEmpty
    \/ SearchDepthBegin
    \/ ScanMove
    \/ ScanBreak
    \/ ScanEnd
    \/ IterationEnd

SpecAI == InitAI /\ [][NextAI]_vars

(***************************************************************************)
(* Properties of one get_best_move call                                    *)
(***************************************************************************)
Returned == pc = "done"

\* C2: the move returned is the one chosen by the deepest iteration that
\* scanned all its root moves within the time limit; an iteration cut short
\* does not replace it.
C2_ReturnsDeepestCompleteIteration ==
    Returned /\ complete_move # NoMove => result = complete_move

\* C8: get_best_move returns None iff the side has no legal move.
C8_NoneIffNoLegalMove ==
    Returned => (result = NoMove <=> generate_moves(board, current_player) = <<>>)

\* C9: a move returned by get_best_move is one of generate_moves of the side
\* on the position, also when the search was cut short.
C9_ReturnedMoveIsLegal ==
    Returned /\ result # NoMove =>
        result \in Range(generate_moves(board, current_player))

\* C9 witness: a call whose last iteration was cut short has returned a move
\* on a position where the filter drops a pseudo-legal move.
C9_Witness ==
    /\ Returned
    /\ result # NoMove
    /\ cut_short
    /\ Len(generate_moves(board, current_player))
           < Len(generate_raw_moves(board, current_player))

(***************************************************************************)
(* Checkmated nodes inside one search: get_best_move on positions with a   *)
(* mate in one move and a mate in two, up to MaxMateDepth.                 *)
(***************************************************************************)
MaxMateDepth == 4

\* White king g6, White rook a1, Black king h8: Ra8 mates at once, and a
\* waiting move of the rook along the first rank forces Kg8 and mates on
\* the eighth rank a move later.
RookMatePosition ==
    Position(<<2, 6>> :> Piece("King", "White") @@ <<7, 0>> :> Piece("Rook", "White")
             @@ <<0, 7>> :> Piece("King", "Black"), <<2, 6>>, <<0, 7>>)

MateInputs == { <<RookMatePosition, "White">>, <<MatePosition, "Black">> }

InitMate ==
    /\ \E input \in MateInputs : board = input[1] /\ current_player = input[2]
    /\ \E max_depth \in 0..MaxMateDepth : CallPending(max_depth)

SpecMate == InitMate /\ [][NextAI]_vars

\* C3: of two checkmated nodes of one search with the same side mated, the
\* one with the larger remaining depth has the score strictly better for
\* the mating side: higher when Black is mated, lower when White is mated.
C3_FasterMateScoresBetter ==
    \A m1 \in mates : \A m2 \in mates :
        m1.maximizing = m2.maximizing /\ m1.depth > m2.depth =>
            IF m1.maximizing THEN m1.score < m2.score ELSE m1.score > m2.score

(***************************************************************************)
(* Mutation of a Board through its public methods set_piece and make_move, *)
(* in any order and with any arguments: MaxMutations calls on Board::new(). *)
(* step counts the calls made.                                             *)
(***************************************************************************)
MaxMutations == 2

MutationSquares == { <<7, 4>>, <<5, 4>>, <<0, 4>>, <<7, 0>> }

MutationPieces == { NoPiece, Piece("King", "White"), Piece("Queen", "Black") }

\* e2-e4, e7-e5, Ke1-e2 onto the pawn, Ke8-e6, Ra1-a3 over the pawn, a
\* move from the empty square e4, and Ke1-c1 towards the a1 corner.
MutationMoves == { M(6, 4, 4, 4), M(1, 4, 3, 4), M(7, 4, 6, 4), M(0, 4, 2, 4),
                   M(7, 0, 5, 0), M(4, 4, 3, 4), M(7, 4, 7, 2) }

InitMut ==
    /\ board = Board_new
    /\ current_player = "White"
    /\ PlayIdle
    /\ SearchIdle

SetPiece ==
    /\ step < MaxMutations
    /\ \E pos \in MutationSquares : \E piece \in MutationPieces :
          board' = set_piece(board, pos, piece)
    /\ step' = step + 1
    /\ UNCHANGED <<app_vars, current_player, line, free, rook_intact, king_stayed, search_vars>>

\* make_move with any Move: it returns false and changes nothing if the
\* source square is empty, and is not modelled where it panics.
MakeMove ==
    /\ step < MaxMutations
    /\ \E mv \in MutationMoves :
          /\ ~make_move_panics(board, mv)
          /\ board' = make_move(board, mv)
    /\ step' = step + 1
    /\ UNCHANGED <<app_vars, current_player, line, free, rook_intact, king_stayed, search_vars>>

NextMut == SetPiece \/ MakeMove

SpecMut == InitMut /\ [][NextMut]_vars

\* C6: after any sequence of set_piece and make_move calls, white_king_pos
\* and black_king_pos are the squares on which the two kings stand.
C6_KingCacheMatchesBoard ==
    \A color \in Colors : king_squares(board, color) = {king_pos_of(board, color)}

(***************************************************************************)
(* Properties of make_move in legal play                                   *)
(***************************************************************************)
\* The step taken applies the legal move mv of the player to move.
Applies(mv) == board' = make_move(board, mv)

LegalMoves == Range(generate_moves(board, current_player))

moved_flag(b, square) ==
    CASE square = <<7, 4>> -> b.white_king_moved
      [] square = <<0, 4>> -> b.black_king_moved
      [] square = <<7, 0>> -> b.white_rook_a_moved
      [] square = <<7, 7>> -> b.white_rook_h_moved
      [] square = <<0, 0>> -> b.black_rook_a_moved
      [] square = <<0, 7>> -> b.black_rook_h_moved

\* C11: a king move of two files moves the rook of that side from its corner
\* to the square the king crossed, and afterwards the moved flag of the king
\* and the moved flag of that rook are both set.
C11_CastlingMovesRookAndSetsFlags ==
    [][\A mv \in LegalMoves :
          Applies(mv) /\ is_castling(board, mv) =>
              /\ get_piece(board', castling_corner(mv)) = NoPiece
              /\ get_piece(board', crossed_square(mv))
                     = Piece("Rook", get_piece(board, mv.from).color)
              /\ moved_flag(board', mv.from)
              /\ moved_flag(board', castling_corner(mv))]_vars

\* A pawn move of two ranks.
is_double_step(b, mv) ==
    get_piece(b, mv.from).piece_type = "Pawn" /\ Abs(mv.to[1] - mv.from[1]) = 2

\* A diagonal pawn move onto an empty square: the capture en passant.
is_en_passant(b, mv) ==
    /\ get_piece(b, mv.from).piece_type = "Pawn"
    /\ mv.from[2] # mv.to[2]
    /\ get_piece(b, mv.to) = NoPiece

\* The square a double step passes over.
skipped_square(mv) == <<(mv.from[1] + mv.to[1]) \div 2, mv.from[2]>>

\* C12: after make_move, en_passant_target is the skipped square iff the
\* move applied was a pawn's double step and None otherwise; so a capture en
\* passant is offered only onto the target set by the move just made.
C12_EnPassantTargetOnlyAfterDoubleStep ==
    /\ [][\A mv \in LegalMoves :
            Applies(mv) =>
                board'.en_passant_target =
                    IF is_double_step(board, mv) THEN skipped_square(mv) ELSE NoSquare]_vars
    /\ [](\A color \in Colors : \A mv \in Range(generate_moves(board, color)) :
            is_en_passant(board, mv) => board.en_passant_target = mv.to)

\* C12 witness: a double step has just been made and the opponent is offered
\* the capture en passant.
C12_Witness ==
    /\ board.en_passant_target # NoSquare
    /\ \E mv \in LegalMoves : is_en_passant(board, mv)

\* The square on which the pawn stands whose double step set the target.
double_step_landing(target) == <<IF target[1] = 5 THEN 4 ELSE 3, target[2]>>

\* C13: applying a capture en passant removes only the enemy pawn that has
\* just made the double step, which stands on the capturing pawn's departure
\* rank and arrival file, and the capturing pawn ends on the target square.
C13_EnPassantRemovesThePassedPawn ==
    [][\A mv \in LegalMoves :
          Applies(mv) /\ is_en_passant(board, mv) =>
              LET captured == <<mv.from[1], mv.to[2]>> IN
              /\ mv.to = board.en_passant_target
              /\ captured = double_step_landing(board.en_passant_target)
              /\ get_piece(board, captured) = Piece("Pawn", opposite(current_player))
              /\ get_piece(board', mv.to) = Piece("Pawn", current_player)
              /\ \A pos \in (0..7) \X (0..7) :
                    get_piece(board', pos) =
                        IF pos \in {mv.from, captured} THEN NoPiece
                        ELSE IF pos = mv.to THEN get_piece(board, mv.from)
                        ELSE get_piece(board, pos)]_vars

\* C13 witness: a capture en passant has been applied: the capturing pawn
\* stands on the square passed over and the square behind it is empty.
C13_Witness ==
    /\ line \in {9, 10}
    /\ step = Len(Lines[line])
    /\ \/ /\ get_piece(board, <<2, 3>>) = Piece("Pawn", "White")
          /\ get_piece(board, <<3, 3>>) = NoPiece
       \/ /\ get_piece(board, <<5, 4>>) = Piece("Pawn", "Black")
          /\ get_piece(board, <<4, 4>>) = NoPiece

\* The row a pawn of the colour promotes on.
farthest_rank(color) == IF color = "White" THEN 0 ELSE 7

PromotionChoices == {"None", "Queen", "Rook", "Bishop", "Knight"}

\* C14: make_move of a pawn onto its farthest rank leaves on the destination
\* a piece of the mover's colour whose kind is the move's promotion choice,
\* or a Queen when the choice is None; a pawn move to any other rank leaves
\* a pawn.
C14_PromotionFollowsChoice ==
    \A color \in Colors : \A mv \in Range(generate_moves(board, color)) :
        get_piece(board, mv.from).piece_type = "Pawn" =>
            \A choice \in PromotionChoices :
                get_piece(make_move(board, [mv EXCEPT !.promotion = choice]), mv.to) =
                    IF mv.to[1] = farthest_rank(color)
                    THEN Piece(IF choice = "None" THEN "Queen" ELSE choice, color)
                    ELSE Piece("Pawn", color)

\* C14 witness: the pawn of the promotion line has been promoted to the
\* knight the move chose.
C14_Witness ==
    /\ line = 8
    /\ step = Len(LinePromotion)
    /\ Lines[line] = LinePromotion
    /\ get_piece(board, <<0, 6>>) = Piece("Knight", "White")

\* C15: make_move with an empty source square returns false and leaves
\* every field of the position unchanged; make_move with an occupied source
\* square returns true.
C15_FalseAndUnchangedOrTrue ==
    \A mv \in MutationMoves :
        IF get_piece(board, mv.from) = NoPiece
        THEN make_move_returns(board, mv) = "false" /\ make_move(board, mv) = board
        ELSE make_move_returns(board, mv) = "true"

(***************************************************************************)
(* Nodes searched by one engine: minimax_with_tt is called on a node with  *)
(* the full window and no deadline, as search_depth and the test module    *)
(* call it, and the engine's transposition table is kept from one call to  *)
(* the next.  id_depth is the remaining depth of the call, sd_best.score   *)
(* the score it returned, step the number of calls made.                   *)
(***************************************************************************)
MaxNodeDepth == 2

MaxVisits == 2

\* White king a4, White pawn a5, Black pawn b5 giving check, Black rooks b1
\* and h3, Black king h8: the pawn has arrived on b5 by a single step, and
\* White is checkmated.
EnPassantMatePosition ==
    Position(<<4, 0>> :> Piece("King", "White") @@ <<3, 0>> :> Piece("Pawn", "White")
             @@ <<3, 1>> :> Piece("Pawn", "Black") @@ <<7, 1>> :> Piece("Rook", "Black")
             @@ <<5, 7>> :> Piece("Rook", "Black") @@ <<0, 7>> :> Piece("King", "Black"),
             <<4, 0>>, <<0, 7>>)

\* The same placement after the double step b7-b5: White's one legal move
\* is the capture en passant on b6.
EnPassantEscapePosition == [EnPassantMatePosition EXCEPT !.en_passant_target = <<2, 1>>]

\* The nodes visited: (position, side to move).
NodeInputs ==
    { <<MatePosition, "Black">>, <<RookMatePosition, "White">>,
      <<EnPassantMatePosition, "White">>, <<EnPassantEscapePosition, "White">>,
      <<StalematePosition, "Black">>, <<StalematePosition, "White">>,
      <<RookMatePosition, "Black">> }

NodePending ==
    /\ \E input \in NodeInputs : board' = input[1] /\ current_player' = input[2]
    /\ \E depth \in 1..MaxNodeDepth : id_depth' = depth
    /\ pc' = "node"

InitNode ==
    /\ \E input \in NodeInputs : board = input[1] /\ current_player = input[2]
    /\ PlayIdle
    /\ ai = ChessAI_new(MaxNodeDepth)
    /\ pc = "node"
    /\ \E depth \in 1..MaxNodeDepth : id_depth = depth
    /\ id_best_move = NoMove
    /\ sd_moves = <<>>
    /\ sd_index = 0
    /\ sd_best = [move |-> NoMove, score |-> 0]
    /\ elapsed = 0
    /\ result = NoMove
    /\ complete_move = NoMove
    /\ cut_short = FALSE
    /\ mates = {}

node_answer(r) ==
    /\ sd_best' = [move |-> NoMove, score |-> r.score]
    /\ ai' = [ai EXCEPT !.transposition_table = r.s.transposition_table,
                        !.nodes_searched = r.s.nodes_searched]
    /\ mates' = r.s.mated

\* self.minimax_with_tt(&board, depth, i32::MIN, i32::MAX, maximizing, now).
VisitNode ==
    /\ pc = "node"
    /\ node_answer(minimax_with_tt(
            Searcher(ai.transposition_table, ai.nodes_searched, -1, {}),
            board, id_depth, I32_MIN, I32_MAX, current_player = "White"))
    /\ pc' = "answered"
    /\ step' = step + 1
    /\ UNCHANGED <<app_vars, board, current_player, line, free, rook_intact, king_stayed, id_depth,
                   id_best_move, sd_moves, sd_index, elapsed, result, complete_move,
                   cut_short>>

\* The engine is given its next node.
NextNode ==
    /\ pc = "answered"
    /\ step < MaxVisits
    /\ NodePending
    /\ UNCHANGED <<app_vars, play_vars, ai, id_best_move, sd_moves, sd_index, sd_best, elapsed, result,
                   complete_move, cut_short, mates>>

NextVisit == VisitNode \/ NextNode

SpecNode == InitNode /\ [][NextVisit]_vars

no_legal_move == generate_moves(board, current_player) = <<>>

\* C16: for a node where the side to move has no legal move and its king is
\* in check, minimax_with_tt called with remaining depth >= 1 before the
\* deadline returns a score of magnitude greater than 90000 that favours
\* the mating side: positive when Black is mated, negative when White is.
C16_MatedNodeScoresBeyond90000 ==
    pc = "answered" /\ no_legal_move /\ is_in_check(board, current_player) =>
        IF current_player = "Black" THEN sd_best.score > 90000 ELSE sd_best.score < -90000

\* C17: for a node where the side to move has no legal move and its king is
\* not in check, the search returns exactly 0.
C17_StalemateNodeScoresZero ==
    pc = "answered" /\ no_legal_move /\ ~is_in_check(board, current_player) =>
        sd_best.score = 0

\* C18: Board::evaluate on the standard starting position returns exactly
\* 0: the material, piece-square, king-safety and mobility terms are each 0.
C18_StartEvaluatesToZero ==
    board.squares = Board_new.squares =>
        /\ evaluate(board) = 0
        /\ material_evaluation(board) = 0
        /\ positional_evaluation(board) = 0
        /\ king_safety_evaluation(board) = 0
        /\ mobility_evaluation(board) = 0

\* C18 witness: the starting position, in which each side has 20 moves, is
\* evaluated to 0.
C18_Witness ==
    /\ board = Board_new
    /\ Len(generate_moves(board, "White")) = 20
    /\ Len(generate_moves(board, "Black")) = 20
    /\ evaluate(board) = 0

MovedFlags ==
    { "white_king_moved", "white_rook_a_moved", "white_rook_h_moved",
      "black_king_moved", "black_rook_a_moved", "black_rook_h_moved" }

\* The castling rights a position still has, by its moved flags:
\* (colour, side), lost once the king or the rook of that side has moved.
castling_rights(b) ==
    (IF ~b.white_king_moved /\ ~b.white_rook_h_moved THEN {<<"White", "King">>} ELSE {})
    \cup (IF ~b.white_king_moved /\ ~b.white_rook_a_moved THEN {<<"White", "Queen">>} ELSE {})
    \cup (IF ~b.black_king_moved /\ ~b.black_rook_h_moved THEN {<<"Black", "King">>} ELSE {})
    \cup (IF ~b.black_king_moved /\ ~b.black_rook_a_moved THEN {<<"Black", "Queen">>} ELSE {})

\* The castling keys XOR-ed into the hash of a position.
castling_keys(b) == get_board_hash(b) \cap {zobrist_castling(i) : i \in 0..3}

\* C19: for a fixed piece placement, changing the availability of a castling
\* right through the king-moved or the corresponding rook-moved flag changes
\* which castling keys are XOR-ed into the hash.
C19_EveryCastlingRightIsHashed ==
    \A flag \in MovedFlags :
        castling_rights([board EXCEPT ![flag] = ~@]) # castling_rights(board) =>
            castling_keys([board EXCEPT ![flag] = ~@]) # castling_keys(board)

\* The values en_passant_target takes: None, or a square of the third or
\* the sixth rank.
EnPassantTargets == {NoSquare} \cup ({2, 5} \X (0..7))

\* C20: get_board_hash is a function of the squares and the hashed flags of
\* the position alone: it does not depend on the en-passant target or on
\* the side to move, so positions differing only in those get the same key.
C20_HashIgnoresEnPassantAndSide ==
    \A target \in EnPassantTargets :
        get_board_hash([board EXCEPT !.en_passant_target = target]) = get_board_hash(board)

\* C20 witness: a position with an en-passant target, hashed like the same
\* position without one.
C20_Witness ==
    /\ board.en_passant_target # NoSquare
    /\ get_board_hash(board) = get_board_hash([board EXCEPT !.en_passant_target = NoSquare])

\* The engine's searcher once a reading of the clock has exceeded the limit.
ExpiredSearcher == Searcher(ai.transposition_table, ai.nodes_searched, 0, mates)

\* A call made with the limit exceeded returns the static evaluation and
\* leaves the searcher as it is.
expired_call(b, depth, maximizing, static) ==
    LET r == minimax_with_tt(ExpiredSearcher, b, depth, I32_MIN, I32_MAX, maximizing)
    IN  r.score = static /\ r.s = ExpiredSearcher

\* C22: once the elapsed time exceeds the time limit, every minimax_with_tt
\* call returns the static evaluation of its position at once, leaving the
\* node count and the cache as they are, and the root scans no further
\* move: the search only returns, from search_depth and then from
\* iterative_deepening.
C22_ExpiredSearchOnlyReturns ==
    /\ [](\A b \in {board} \cup {make_move(board, sd_moves[i]) : i \in {sd_index} \cap DOMAIN sd_moves} :
            \A depth \in 0..MaxDepth : \A maximizing \in BOOLEAN :
                expired_call(b, depth, maximizing, evaluate(b)))
    /\ [][elapsed = 2 =>
            /\ pc' \in {"returned", "done"}
            /\ ai' = ai
            /\ sd_index' = sd_index
            /\ sd_best' = sd_best
            /\ id_depth' = id_depth]_vars

\* C22 witness: the limit was passed inside minimax_with_tt while the root
\* still had moves to scan, and search_depth has returned.
C22_Witness ==
    /\ elapsed = 2
    /\ cut_short
    /\ pc = "returned"
    /\ ai.nodes_searched > 0
    /\ sd_index <= Len(sd_moves)

(***************************************************************************)
(* One engine asked for a move MaxCalls times, as ChessGame::get_ai_move   *)
(* does once per turn.  The engine starts with the table earlier searches  *)
(* have left it: empty, or holding TableLimit or TableLimit + 1 entries of *)
(* other positions.  step counts the calls that have returned.             *)
(***************************************************************************)
MaxCalls == 2

CallInputs == { <<MatePosition, "Black">>, <<CheckPosition, "White">> }

InitCalls ==
    /\ \E input \in CallInputs : board = input[1] /\ current_player = input[2]
    /\ \E size \in {0, TableLimit, TableLimit + 1} :
          /\ PlayIdle
          /\ ai = [ChessAI_new(MaxDepth) EXCEPT !.other_entries = size]
    /\ pc = "call"
    /\ id_depth = 0
    /\ id_best_move = NoMove
    /\ sd_moves = <<>>
    /\ sd_index = 0
    /\ sd_best = [move |-> NoMove, score |-> 0]
    /\ elapsed = 0
    /\ result = NoMove
    /\ complete_move = NoMove
    /\ cut_short = FALSE
    /\ mates = {}

\* get_best_move has returned and the same engine is asked again.
CallAgain ==
    /\ pc = "done"
    /\ step < MaxCalls - 1
    /\ step' = step + 1
    /\ \E input \in CallInputs : board' = input[1] /\ current_player' = input[2]
    /\ pc' = "call"
    /\ UNCHANGED <<app_vars, line, free, rook_intact, king_stayed, ai, id_depth, id_best_move,
                   sd_moves, sd_index, sd_best, elapsed, result, complete_move, cut_short,
                   mates>>

NextCalls == NextAI \/ CallAgain

SpecCalls == InitCalls /\ [][NextCalls]_vars

\* C23: at the start of each get_best_move call the table is emptied
\* completely if it holds more than 100000 entries and left untouched
\* otherwise; at no other point is an entry's key removed, so below the
\* threshold entries persist from one search to the next.
C23_ClearedOnlyAtCallStartOverLimit ==
    [][IF pc = "call"
       THEN IF table_len(ai) > 100000 THEN table_len(ai') = 0
            ELSE /\ ai'.transposition_table = ai.transposition_table
                 /\ ai'.other_entries = ai.other_entries
       ELSE /\ DOMAIN ai.transposition_table \subseteq DOMAIN ai'.transposition_table
            /\ ai'.other_entries = ai.other_entries]_vars

\* C23 witness: a second call has started on the table of exactly 100000
\* older entries and those the first search added.
C23_Witness ==
    /\ step = 1
    /\ pc = "loop"
    /\ table_len(ai) > TableLimit
    /\ ai.other_entries = TableLimit

\* C24: the number of entries of the table never exceeds a fixed bound that
\* does not depend on how many nodes a search visits: the threshold of the
\* clearing.
C24_TableSizeBounded ==
    pc # "call" => table_len(ai) <= TableLimit

\* The position seen from the other side: rows flipped top to bottom and
\* colours swapped, with the king squares, the moved flags and the
\* en-passant target of the two sides exchanged accordingly.
mirror_square(pos) == IF pos = NoSquare THEN NoSquare ELSE <<7 - pos[1], pos[2]>>

mirror(b) ==
    [squares |-> [row \in 0..7 |-> [col \in 0..7 |->
                    IF b.squares[7 - row][col] = NoPiece THEN NoPiece
                    ELSE Piece(b.squares[7 - row][col].piece_type,
                               opposite(b.squares[7 - row][col].color))]],
     white_king_pos |-> mirror_square(b.black_king_pos),
     black_king_pos |-> mirror_square(b.white_king_pos),
     white_king_moved |-> b.black_king_moved,
     black_king_moved |-> b.white_king_moved,
     white_rook_a_moved |-> b.black_rook_a_moved,
     white_rook_h_moved |-> b.black_rook_h_moved,
     black_rook_a_moved |-> b.white_rook_a_moved,
     black_rook_h_moved |-> b.white_rook_h_moved,
     en_passant_target |-> mirror_square(b.en_passant_target)]

\* C25: Board::evaluate is antisymmetric under colour mirroring: the mirror
\* of a position evaluates to the negative of the position's evaluation.
C25_EvaluateAntisymmetric ==
    evaluate(mirror(board)) = 0 - evaluate(board)

\* C25 witness: a position with a king in check and a non-zero evaluation,
\* different from its mirror.
C25_Witness ==
    /\ king_safety_evaluation(board) # 0
    /\ evaluate(board) # 0
    /\ mirror(board) # board

\* The implied inverse of a move: from its destination back to its source.
inverse_move(mv) == Move(mv.to, mv.from, "None")

\* A move that is not a promotion, castling or en-passant move.
is_plain(b, mv) ==
    /\ ~(get_piece(b, mv.from).piece_type = "Pawn" /\ mv.to[1] \in {0, 7})
    /\ ~is_castling(b, mv)
    /\ ~is_en_passant(b, mv)

round_trip(b, mv) == make_move(make_move(b, mv), inverse_move(mv))

C27_FullWindowNodeStoresExact ==
    /\ pc = "answered"
    /\ step = 1
    /\ ~no_legal_move
    /\ I32_MIN < sd_best.score
    /\ sd_best.score < I32_MAX
    => /\ get_board_hash(board) \in DOMAIN ai.transposition_table
       /\ ai.transposition_table[get_board_hash(board)] =
              [ai.transposition_table[get_board_hash(board)] EXCEPT
                  !.depth = id_depth, !.score = sd_best.score, !.node_type = "Exact"]

\* The windows a node is entered with.
Windows == { <<I32_MIN, I32_MAX>>, <<I32_MIN, 1>>, <<600, I32_MAX>> }

\* The entry of the node just searched, and the table without it.
node_entry == ai.transposition_table[get_board_hash(board)]

without_entry ==
    [key \in DOMAIN ai.transposition_table \ {get_board_hash(board)} |->
        ai.transposition_table[key]]

\* minimax_with_tt on the node again, with the given table, depth and window.
revisit(table, depth, window) ==
    minimax_with_tt(Searcher(table, ai.nodes_searched, -1, {}), board, depth,
                    window[1], window[2], current_player = "White")

\* The first node of an engine has been searched and has left its entry.
EntryLeft ==
    pc = "answered" /\ step = 1 /\ get_board_hash(board) \in DOMAIN ai.transposition_table

\* The use of an entry of sufficient depth: what the lookup returns or how it
\* narrows the window.
deep_entry_used(entry, depth, window) ==
    LET alpha1 == IF entry.node_type = "LowerBound" THEN Max(window[1], entry.score)
                  ELSE window[1]
        beta1 == IF entry.node_type = "UpperBound" THEN Min(window[2], entry.score)
                 ELSE window[2]
    IN  IF entry.node_type = "Exact" \/ alpha1 >= beta1
        THEN /\ revisit(ai.transposition_table, depth, window).score = entry.score
             /\ revisit(ai.transposition_table, depth, window).s.transposition_table
                    = ai.transposition_table
        ELSE revisit(ai.transposition_table, depth, window)
                 = revisit(ai.transposition_table, depth, <<alpha1, beta1>>)

\* C28: an entry of smaller depth than the node's remaining depth changes
\* neither the window nor the value returned: the node returns what it
\* returns without the entry.
C28_ShallowEntryChangesNothing ==
    EntryLeft /\ id_depth < MaxNodeDepth =>
        \A window \in Windows :
            revisit(ai.transposition_table, id_depth + 1, window).score
                = revisit(without_entry, id_depth + 1, window).score

\* C28 as amended: an entry of depth >= the remaining depth is used as the
\* claim says; of an entry of smaller depth neither the score nor the node
\* type has any influence, only its best move, through the move ordering.
C28_EntryUsedByDepth ==
    EntryLeft =>
        \A window \in Windows :
            /\ deep_entry_used(node_entry, id_depth, window)
            /\ id_depth < MaxNodeDepth =>
                  \A node_type \in {"Exact", "LowerBound", "UpperBound"} :
                      revisit(tt_insert(ai.transposition_table, get_board_hash(board),
                                        [node_entry EXCEPT !.score = 0 - @,
                                                           !.node_type = node_type]),
                              id_depth + 1, window).score
                          = revisit(ai.transposition_table, id_depth + 1, window).score

\* C28 witness: the first node searched has left a LowerBound entry of
\* depth 1 that closes the window (-inf, 1), and the engine can be asked for
\* depth 2.
C28_Witness ==
    /\ EntryLeft
    /\ id_depth = 1
    /\ id_depth < MaxNodeDepth
    /\ node_entry.depth = 1
    /\ node_entry.node_type = "LowerBound"
    /\ node_entry.score >= 1

\* C29: iterative deepening runs the depths 1, 2, ... up to max_depth in
\* increasing order; no iteration is started once the elapsed time exceeds
\* the time limit (elapsed = 2), and after an iteration has returned a move
\* none is started if the elapsed time exceeds half the limit (elapsed >= 1).
C29_DeepeningOrderAndStops ==
    [][/\ pc = "call" => id_depth' = 1
       /\ pc # "call" /\ id_depth' # id_depth => id_depth' = id_depth + 1
       /\ pc = "loop" /\ pc' # "done" => id_depth <= ai.max_depth /\ elapsed' < 2
       /\ pc = "returned" /\ pc' = "loop" => elapsed' = 0
       /\ pc = "returned" /\ elapsed' >= 1 => pc' = "done" /\ id_depth' = id_depth]_vars

\* C29 witness: an iteration below max_depth has returned a move with more
\* than half of the limit elapsed, and the call has returned.
C29_Witness ==
    /\ Returned
    /\ elapsed = 1
    /\ id_depth < ai.max_depth
    /\ result # NoMove

\* The thread running get_best_move does not halt.  In every state before
\* the return one of the steps of Proceeds is enabled, so weak fairness on
\* it excludes exactly the behaviours that stop taking steps; ScanMove and
\* the start of an iteration remain possible wherever they are enabled, so
\* the behaviours in which the clock never reaches the deadline are kept.
Proceeds ==
    GetBestMove \/ LoopExit \/ LoopTimeout \/ ScanBreak \/ ScanEnd \/ IterationEnd

SpecAILive == InitAI /\ [][NextAI]_vars /\ WF_vars(Proceeds)

\* C30: get_best_move always terminates, also when the clock never reaches
\* the deadline: the root is searched with a depth from 1 to max_depth, so
\* that the remaining depth handed down is never below 0, and the call
\* eventually returns.
C30_GetBestMoveTerminates ==
    /\ [](pc = "scan" => 1 <= id_depth /\ id_depth <= ai.max_depth)
    /\ <>Returned

\* C30 witness: the call has returned after the deepening loop ran through
\* all its depths with the clock never past half the limit.
C30_Witness ==
    /\ Returned
    /\ elapsed = 0
    /\ ai.max_depth = MaxDepth
    /\ id_depth > ai.max_depth
    /\ result # NoMove

(***************************************************************************)
(* The search against plain minimax.  minimax_with_tt is called with the   *)
(* full window and no deadline on a pawn ending, from an empty table, at    *)
(* depths up to MaxSearchDepth; afterwards the engine is given the nodes    *)
(* of NodeInputs as in SpecNode.                                            *)
(***************************************************************************)
MaxSearchDepth == 4

\* White king d5, White pawn c6, Black king d8.
PawnEndingPosition ==
    Position(<<3, 3>> :> Piece("King", "White") @@ <<2, 2>> :> Piece("Pawn", "White")
             @@ <<0, 3>> :> Piece("King", "Black"), <<3, 3>>, <<0, 3>>)

DeepInputs == { <<PawnEndingPosition, "White">>, <<PawnEndingPosition, "Black">> }

InitDeep ==
    /\ \E input \in DeepInputs : board = input[1] /\ current_player = input[2]
    /\ PlayIdle
    /\ ai = ChessAI_new(MaxSearchDepth)
    /\ pc = "node"
    /\ \E depth \in 1..MaxSearchDepth : id_depth = depth
    /\ id_best_move = NoMove
    /\ sd_moves = <<>>
    /\ sd_index = 0
    /\ sd_best = [move |-> NoMove, score |-> 0]
    /\ elapsed = 0
    /\ result = NoMove
    /\ complete_move = NoMove
    /\ cut_short = FALSE
    /\ mates = {}

SpecDeep == InitDeep /\ [][NextVisit]_vars

\* The recursion of minimax_with_tt without the table, the window and the
\* ordering: every legal move of every node is searched to the given depth.
RECURSIVE plain(_, _, _)

RECURSIVE best_of(_, _, _, _, _, _)

best_of(b, depth, maximizing, moves, i, best) ==
    IF i > Len(moves) THEN best
    ELSE LET v == plain(make_move(b, moves[i]), depth - 1, ~maximizing)
         IN best_of(b, depth, maximizing, moves, i + 1,
                    IF maximizing THEN Max(best, v) ELSE Min(best, v))

plain_node(b, depth, maximizing, moves) ==
    IF moves = <<>>
    THEN IF is_in_check(b, IF maximizing THEN "White" ELSE "Black")
         THEN mate_score(maximizing, depth)
         ELSE 0
    ELSE best_of(b, depth, maximizing, moves, 1, IF maximizing THEN I32_MIN ELSE I32_MAX)

plain(b, depth, maximizing) ==
    IF depth = 0 THEN evaluate(b)
    ELSE plain_node(b, depth, maximizing,
                    generate_moves(b, IF maximizing THEN "White" ELSE "Black"))

\* C21: with no deadline and from an empty table, the value minimax_with_tt
\* returns for a position, a depth and the full window is the value of plain
\* minimax to that depth (and so does not depend on the order in which the
\* moves of a node are searched).
C21_SearchValueIsPlainMinimax ==
    pc = "answered" /\ step = 1 =>
        sd_best.score = plain(board, id_depth, current_player = "White")

(***************************************************************************)
(* is_in_check against move generation                                     *)
(***************************************************************************)
\* The positions the pseudo-legal moves of the player to move lead to,
\* those that leave the mover's own king attacked included.
raw_successors ==
    {make_move(board, mv) : mv \in Range(generate_raw_moves(board, current_player))}

cache_correct(b, color) == king_squares(b, color) = {king_pos_of(b, color)}

\* C31: on a position whose king-square cache is correct, is_in_check(side)
\* is true exactly when generate_raw_moves of the other side contains a move
\* whose destination is the square of side's king.
C31_CheckAgreesWithRawMoves ==
    \A b \in {board} \cup raw_successors : \A color \in Colors :
        cache_correct(b, color) =>
            (is_in_check(b, color)
                <=> attacked_by_moves(b, king_pos_of(b, color), opposite(color)))

\* C31 witness: in play, a pseudo-legal move of the side to move leaves its
\* king in check, and the side to move is itself in check by a raw move.
C31_Witness ==
    /\ step > 0
    /\ is_in_check(board, current_player)
    /\ attacked_by_moves(board, king_pos_of(board, current_player), opposite(current_player))
    /\ \E b \in raw_successors :
          cache_correct(b, current_player) /\ is_in_check(b, current_player)

(***************************************************************************)
(* Piece counts under the generated moves                                  *)
(***************************************************************************)
\* The number of pieces of one colour on the board.
piece_count(b, color) ==
    Cardinality({pos \in (0..7) \X (0..7) :
                    get_piece(b, pos) # NoPiece /\ get_piece(b, pos).color = color})

\* C32: applying a move generate_moves returns for a side leaves the number
\* of that side's pieces unchanged and removes at most one piece of the
\* other side.
C32_LegalMoveRemovesAtMostOneEnemy ==
    \A color \in Colors :
        \A mv \in Range(generate_moves(board, color)) :
            /\ piece_count(make_move(board, mv), color) = piece_count(board, color)
            /\ piece_count(board, opposite(color)) - piece_count(make_move(board, mv), opposite(color))
                   \in {0, 1}

(***************************************************************************)
(* The side an en-passant capture is generated for                         *)
(***************************************************************************)
\* The diagonal pawn moves onto the en-passant target among the given moves.
onto_target(b, moves) ==
    {mv \in Range(moves) :
        /\ get_piece(b, mv.from).piece_type = "Pawn"
        /\ mv.from[2] # mv.to[2]
        /\ mv.to = b.en_passant_target}

\* C33: right after a pawn's double step (the target is set and the other
\* side is to move), neither generate_moves nor generate_raw_moves for the
\* side that made the double step contains a diagonal pawn move onto the
\* en-passant target.
C33_NoEnPassantForTheSideThatStepped ==
    board.en_passant_target # NoSquare =>
        /\ onto_target(board, generate_moves(board, opposite(current_player))) = {}
        /\ onto_target(board, generate_raw_moves(board, opposite(current_player))) = {}

(***************************************************************************)
(* The node an entry was stored for, and the node it is used at            *)
(***************************************************************************)
\* The side that was to move at the node that stored the entry: best_move
\* is a move of that node, and the key determines the placement, so the
\* piece on its source square belongs to that side.
stored_by(b, entry) == get_piece(b, entry.best_move.from).color

\* C34: an entry of the table is used (entry.depth >= depth at the lookup)
\* only at a node with the side to move of the node that stored it, so a
\* score computed for a maximizing node is not returned at a minimizing node
\* with the same placement.
C34_EntryUsedAtTheSideThatStoredIt ==
    pc = "node" /\ tt_hit(ai.transposition_table, get_board_hash(board), id_depth) =>
        stored_by(board, ai.transposition_table[get_board_hash(board)]) = current_player

(***************************************************************************)
(* Nodes searched against a deadline: as in SpecNode, but the time limit   *)
(* may be exceeded after budget further readings of the clock inside       *)
(* minimax_with_tt.  cut_short tells whether the deadline passed during    *)
(* the visit.                                                              *)
(***************************************************************************)
VisitLate ==
    /\ pc = "node"
    /\ \E budget \in -1..MaxBudget :
          LET r == minimax_with_tt(
                       Searcher(ai.transposition_table, ai.nodes_searched, budget, {}),
                       board, id_depth, I32_MIN, I32_MAX, current_player = "White")
          IN  node_answer(r) /\ cut_short' = time_exceeded(r.s)
    /\ pc' = "answered"
    /\ step' = step + 1
    /\ UNCHANGED <<app_vars, board, current_player, line, free, rook_intact, king_stayed, id_depth,
                   id_best_move, sd_moves, sd_index, elapsed, result, complete_move>>

NextLate == VisitLate \/ NextNode

SpecLate == InitNode /\ [][NextLate]_vars

\* C35: every entry stored with depth d holds the result of a search of
\* its position to the full depth d, also when the deadline passed during
\* the call (a node cut short by the deadline stores no entry): after the
\* first call on an engine with an empty table, an entry for the node
\* searched holds the plain minimax value of the node to the call's depth.
C35_EntryHoldsFullDepthResult ==
    pc = "answered" /\ step = 1 /\ get_board_hash(board) \in DOMAIN ai.transposition_table =>
        ai.transposition_table[get_board_hash(board)].score
            = plain(board, id_depth, current_player = "White")

(***************************************************************************)
(* The moved flags under make_move                                         *)
(***************************************************************************)
\* The piece and the source square whose move sets the flag.
flag_piece(flag) ==
    CASE flag = "white_king_moved" -> Piece("King", "White")
      [] flag = "black_king_moved" -> Piece("King", "Black")
      [] flag \in {"white_rook_a_moved", "white_rook_h_moved"} -> Piece("Rook", "White")
      [] OTHER -> Piece("Rook", "Black")

flag_corner(flag) ==
    CASE flag = "white_rook_a_moved" -> {<<7, 0>>}
      [] flag = "white_rook_h_moved" -> {<<7, 7>>}
      [] flag = "black_rook_a_moved" -> {<<0, 0>>}
      [] flag = "black_rook_h_moved" -> {<<0, 7>>}
      [] OTHER -> (0..7) \X (0..7)

\* C36: under make_move (and set_piece) no moved flag goes back from true to
\* false, and a flag goes from false to true only in a make_move whose piece
\* is the king of the flag's side or, for a rook flag, a rook of that side
\* leaving the flag's corner.
C36_MovedFlagsMonotonic ==
    [][\A flag \in MovedFlags :
          /\ board[flag] => board'[flag]
          /\ ~board[flag] /\ board'[flag] =>
                \E mv \in MutationMoves :
                    /\ board' = make_move(board, mv)
                    /\ get_piece(board, mv.from) = flag_piece(flag)
                    /\ mv.from \in flag_corner(flag)]_vars

\* C36 witness: two calls have been made, the first set a flag and the
\* second, a rook leaving its corner, set another and kept the first.
C36_Witness ==
    /\ step = 2
    /\ board.white_king_moved
    /\ board.white_rook_a_moved

(***************************************************************************)
(* game.rs: ChessGame.  make_move, update_game_state and new_game are      *)
(* called in any order.  The moves given to make_move are the next move of *)
(* the line followed and the moves of GameProbes, which are legal in some  *)
(* positions and not in others; at most MaxFree of the moves applied leave *)
(* the line.  pc names the method called last.                             *)
(***************************************************************************)
\* 1.f3 e5 2.g4 Qh4#: White is checkmated.
LineFoolsMate == << M(6, 5, 5, 5), M(1, 4, 3, 4), M(6, 6, 4, 6), M(0, 3, 4, 7) >>

\* 1.e4 e5 2.Qh5 Nc6 3.Bc4 Nf6 4.Qxf7#: Black is checkmated.
LineScholarsMate == << M(6, 4, 4, 4), M(1, 4, 3, 4), M(7, 3, 3, 7), M(0, 1, 2, 2),
                       M(7, 5, 4, 2), M(0, 6, 2, 5), M(3, 7, 1, 5) >>

\* 1.e3 a5 2.Qh5 Ra6 3.Qxa5 h5 4.h4 Rah6 5.Qxc7 f6 6.Qxd7+ Kf7 7.Qxb7 Qd3
\* 8.Qxb8 Qh7 9.Qxc8 Kg6 10.Qe6: Black is stalemated.
LineStalemate == << M(6, 4, 5, 4), M(1, 0, 3, 0), M(7, 3, 3, 7), M(0, 0, 2, 0),
                    M(3, 7, 3, 0), M(1, 7, 3, 7), M(6, 7, 4, 7), M(2, 0, 2, 7),
                    M(3, 0, 1, 2), M(1, 5, 2, 5), M(1, 2, 1, 3), M(0, 4, 1, 5),
                    M(1, 3, 1, 1), M(0, 3, 5, 3), M(1, 1, 0, 1), M(5, 3, 1, 7),
                    M(0, 1, 0, 2), M(1, 5, 2, 6), M(0, 2, 2, 4) >>

GameLines == << LineFoolsMate, LineScholarsMate, LineStalemate, LinePromotion >>

\* e2-e4, e7-e5, e2-e4 with a promotion piece named, a move from e4, and
\* h7-g8 without a promotion piece.
GameProbes == { M(6, 4, 4, 4), M(1, 4, 3, 4), Move(<<6, 4>>, <<4, 4>>, "Queen"),
                M(4, 4, 3, 4), M(1, 7, 0, 6) }

InitGame ==
    /\ board = Board_new
    /\ current_player = "White"
    /\ line \in 1..Len(GameLines)
    /\ step = 0
    /\ free = 0
    /\ rook_intact = [c \in Corners |-> TRUE]
    /\ king_stayed = [c \in Colors |-> TRUE]
    /\ SearchIdle
    /\ AppIdle

\* The next move of the line, while the line is being followed.
book_move == IF free = 0 /\ step < Len(GameLines[line])
             THEN {GameLines[line][step + 1]} ELSE {}

\* An acceptance test that compares the squares of the move only.
is_valid_by_squares(b, color, mv) ==
    \E valid_mv \in Range(generate_moves(b, color)) :
        valid_mv.from = mv.from /\ valid_mv.to = mv.to

\* valid_moves.iter().any(|valid_mv| from, to and promotion are those of mv)
is_valid(b, color, mv) ==
    \E valid_mv \in Range(generate_moves(b, color)) :
        valid_mv.from = mv.from /\ valid_mv.to = mv.to /\ valid_mv.promotion = mv.promotion

\* ChessGame::make_move(mv)
Game_make_move ==
    /\ \E mv \in book_move \cup GameProbes :
        /\ called' = mv
        /\ IF game_state = "Playing" /\ is_valid(board, current_player, mv)
           THEN /\ mv \in book_move \/ free < MaxFree
                /\ board' = make_move(board, mv)
                /\ current_player' = opposite(current_player)
                /\ returned' = TRUE
                /\ IF mv \in book_move
                   THEN step' = step + 1 /\ free' = free
                   ELSE step' = step /\ free' = free + 1
           ELSE /\ returned' = FALSE
                /\ UNCHANGED <<board, current_player, step, free>>
    /\ pc' = "make_move"
    /\ UNCHANGED <<line, rook_intact, king_stayed, ai, id_depth, id_best_move, sd_moves,
                   sd_index, sd_best, elapsed, result, complete_move, cut_short, mates,
                   game_state, ai_thinking, ai_move_start, ai_difficulty, selected_square,
                   valid_moves, promotion_pending>>

\* The game state update_game_state leaves: a win for the other side or a
\* draw if the player to move has no legal move, else the state as it was.
next_game_state_mate_only(b, player, state) ==
    IF generate_moves(b, player) = <<>> /\ is_in_check(b, player)
    THEN IF player = "White" THEN "BlackWins" ELSE "WhiteWins"
    ELSE state

next_game_state(b, player, state) ==
    IF generate_moves(b, player) = <<>>
    THEN IF is_in_check(b, player)
         THEN IF player = "White" THEN "BlackWins" ELSE "WhiteWins"
         ELSE "Draw"
    ELSE state

\* ChessGame::update_game_state()
Game_update_game_state ==
    /\ game_state' = next_game_state(board, current_player, game_state)
    /\ pc' = "update_game_state"
    /\ UNCHANGED <<board, current_player, play_vars, ai, id_depth, id_best_move, sd_moves,
                   sd_index, sd_best, elapsed, result, complete_move, cut_short, mates,
                   ai_thinking, ai_move_start, ai_difficulty, selected_square, valid_moves,
                   promotion_pending, called, returned>>

\* ChessGame::new_game(); another line may be followed in the new game.
Game_new_game ==
    /\ board' = Board_new
    /\ current_player' = "White"
    /\ game_state' = "Playing"
    /\ ai_thinking' = FALSE
    /\ ai_move_start' = FALSE
    /\ line' \in 1..Len(GameLines)
    /\ step' = 0
    /\ free' = 0
    /\ pc' = "new_game"
    /\ UNCHANGED <<rook_intact, king_stayed, ai, id_depth, id_best_move, sd_moves, sd_index,
                   sd_best, elapsed, result, complete_move, cut_short, mates, ai_difficulty,
                   selected_square, valid_moves, promotion_pending, called, returned>>

NextGame == Game_make_move \/ Game_update_game_state \/ Game_new_game

SpecGame == InitGame /\ [][NextGame]_vars

\* C37: a ChessGame::make_move call returns false and leaves the board and
\* the player to move as they were when the game is not Playing or the move
\* given (source, destination and promotion) is not a legal move of the
\* player to move; otherwise it applies the move, gives the turn to the
\* other side and returns true.
C37_MakeMoveAcceptsLegalMovesOnly ==
    [][pc' = "make_move" =>
          IF game_state = "Playing" /\ called' \in Range(generate_moves(board, current_player))
          THEN /\ returned'
               /\ board' = make_move(board, called')
               /\ current_player' = opposite(current_player)
          ELSE /\ ~returned'
               /\ board' = board
               /\ current_player' = current_player]_vars

\* A move of a piece of the player to move was refused in a running game.
C37_Witness ==
    /\ pc = "make_move"
    /\ ~returned
    /\ game_state = "Playing"
    /\ step > 0
    /\ get_piece(board, called.from).color = current_player

\* C38: update_game_state sets a win for the opponent exactly when the
\* player to move has no legal move and is in check, Draw exactly when it has
\* no legal move and is not in check, and otherwise leaves the state; once the
\* state is not Playing, make_move and update_game_state calls neither change
\* the board nor return the state to Playing, and new_game does.
C38_GameOverIsFinalUntilNewGame ==
    [][/\ pc' = "update_game_state" =>
             LET stuck == generate_moves(board, current_player) = <<>>
                 check == is_in_check(board, current_player)
                 lost  == IF current_player = "White" THEN "BlackWins" ELSE "WhiteWins"
             IN  /\ stuck /\ check => game_state' = lost
                 /\ stuck /\ ~check => game_state' = "Draw"
                 /\ ~stuck => game_state' = game_state
       /\ game_state # "Playing" /\ pc' # "new_game" =>
             board' = board /\ game_state' = game_state
       /\ pc' = "new_game" => board' = Board_new /\ game_state' = "Playing"]_vars

\* A move was offered after the game had ended in a draw.
C38_Witness ==
    /\ game_state = "Draw"
    /\ pc = "make_move"
    /\ called # NoMove
    /\ ~returned

(***************************************************************************)
(* ui.rs: ChessApp.  The user clicks squares, chooses promotion pieces,    *)
(* changes the difficulty and asks for new games while update() runs the   *)
(* AI step, in any order.  The squares clicked are those of the next move  *)
(* of the line followed and those of ClickProbes.  get_best_move is        *)
(* followed by its result only, None or a move of generate_moves for       *)
(* Black: the next move of the line or a move of ReplyProbes.  The table   *)
(* and the counters of the engine, which no handler reads, stay as         *)
(* set_ai_difficulty leaves them.  pc names the handler that ran last.     *)
(***************************************************************************)
AppLines == << LineFoolsMate, LineScholarsMate, LinePromotion >>

\* e2, e4, e7, h1 and a3.
ClickProbes == { <<6, 4>>, <<4, 4>>, <<1, 4>>, <<7, 7>>, <<5, 0>> }

\* e7-e5 and a7-a6.
ReplyProbes == { M(1, 4, 3, 4), M(1, 0, 2, 0) }

Difficulties == {"Easy", "Medium", "Hard", "Expert"}

\* AIDifficulty::get_depth
get_depth(difficulty) ==
    CASE difficulty = "Easy" -> 2
      [] difficulty = "Medium" -> 4
      [] difficulty = "Hard" -> 6
      [] OTHER -> 8

\* ChessApp::new()
InitApp ==
    /\ board = Board_new
    /\ current_player = "White"
    /\ line \in 1..Len(AppLines)
    /\ step = 0
    /\ free = 0
    /\ rook_intact = [c \in Corners |-> TRUE]
    /\ king_stayed = [c \in Colors |-> TRUE]
    /\ ai = ChessAI_new(4)
    /\ pc = "idle"
    /\ id_depth = 0
    /\ id_best_move = NoMove
    /\ sd_moves = <<>>
    /\ sd_index = 0
    /\ sd_best = [move |-> NoMove, score |-> 0]
    /\ elapsed = 0
    /\ result = NoMove
    /\ complete_move = NoMove
    /\ cut_short = FALSE
    /\ mates = {}
    /\ AppIdle

\* The next move of the line, while the line is being followed.
app_book == IF free = 0 /\ step < Len(AppLines[line])
            THEN {AppLines[line][step + 1]} ELSE {}

\* The squares of the next move of the line.
app_book_squares == UNION {{mv.from, mv.to} : mv \in app_book}

\* The moves of the list that have the squares of mv.
same_squares(moves, mv) ==
    \E valid_mv \in Range(moves) : valid_mv.from = mv.from /\ valid_mv.to = mv.to

\* A guard of handle_square_click that lets a click through while a
\* promotion choice is awaited.
click_ignored_unless_promoting ==
    game_state # "Playing" \/ current_player # "White" \/ ai_thinking

\* The guard of handle_square_click.
click_ignored ==
    \/ game_state # "Playing"
    \/ current_player # "White"
    \/ ai_thinking
    \/ promotion_pending # NoMove

\* .filter(|mv| mv.from == (row, col))
moves_from(b, pos) ==
    LET from_pos(mv) == mv.from = pos
    IN  SelectSeq(generate_moves(b, "White"), from_pos)

\* The step of the line after mv has been played on the board.
Played(mv) ==
    /\ mv \in app_book \/ free < MaxFree
    /\ IF mv \in app_book
       THEN step' = step + 1 /\ free' = free
       ELSE step' = step /\ free' = free + 1

\* The end of a move of White: the turn passes to Black, the state of the
\* game is updated and, if the game goes on, the AI starts thinking.
WhiteHasMoved ==
    /\ selected_square' = NoSquare
    /\ valid_moves' = <<>>
    /\ current_player' = "Black"
    /\ game_state' = next_game_state(board', "Black", game_state)
    /\ IF game_state' = "Playing"
       THEN ai_thinking' = TRUE /\ ai_move_start' = TRUE
       ELSE UNCHANGED <<ai_thinking, ai_move_start>>

\* ChessApp::handle_square_click(row, col)
App_handle_square_click ==
    /\ \E pos \in app_book_squares \cup ClickProbes :
        IF click_ignored
        THEN UNCHANGED <<board, current_player, step, free, game_state, ai_thinking,
                         ai_move_start, selected_square, valid_moves, promotion_pending>>
        ELSE IF selected_square # NoSquare
        THEN LET selected == selected_square
                 mv == Move(selected, pos, "None")
                 piece == get_piece(board, selected)
                 is_promotion ==
                     /\ piece.piece_type = "Pawn"
                     /\ \/ piece.color = "White" /\ pos[1] = 0
                        \/ piece.color = "Black" /\ pos[1] = 7
             IN  IF same_squares(valid_moves, mv)
                 THEN IF is_promotion
                      THEN /\ promotion_pending' = mv
                           /\ UNCHANGED <<board, current_player, step, free, game_state,
                                          ai_thinking, ai_move_start, selected_square,
                                          valid_moves>>
                      ELSE /\ board' = make_move(board, mv)
                           /\ Played(mv)
                           /\ WhiteHasMoved
                           /\ UNCHANGED promotion_pending
                 ELSE /\ IF get_piece(board, pos).color = "White"
                         THEN /\ selected_square' = pos
                              /\ valid_moves' = moves_from(board, pos)
                         ELSE /\ selected_square' = NoSquare
                              /\ valid_moves' = <<>>
                      /\ UNCHANGED <<board, current_player, step, free, game_state,
                                     ai_thinking, ai_move_start, promotion_pending>>
        ELSE /\ IF get_piece(board, pos).color = "White"
                THEN /\ selected_square' = pos
                     /\ valid_moves' = moves_from(board, pos)
                ELSE UNCHANGED <<selected_square, valid_moves>>
             /\ UNCHANGED <<board, current_player, step, free, game_state, ai_thinking,
                            ai_move_start, promotion_pending>>
    /\ pc' = "handle_square_click"
    /\ UNCHANGED <<line, rook_intact, king_stayed, ai, id_depth, id_best_move, sd_moves,
                   sd_index, sd_best, elapsed, result, complete_move, cut_short, mates,
                   ai_difficulty, called, returned>>

\* ChessApp::handle_promotion_choice(piece_type)
App_handle_promotion_choice ==
    /\ \E piece_type \in {"Queen", "Rook", "Bishop", "Knight"} :
        IF promotion_pending # NoMove
        THEN LET mv == [promotion_pending EXCEPT !.promotion = piece_type]
             IN  /\ board' = make_move(board, mv)
                 /\ Played(mv)
                 /\ promotion_pending' = NoMove
                 /\ WhiteHasMoved
        ELSE UNCHANGED <<board, current_player, step, free, game_state, ai_thinking,
                         ai_move_start, selected_square, valid_moves, promotion_pending>>
    /\ pc' = "handle_promotion_choice"
    /\ UNCHANGED <<line, rook_intact, king_stayed, ai, id_depth, id_best_move, sd_moves,
                   sd_index, sd_best, elapsed, result, complete_move, cut_short, mates,
                   ai_difficulty, called, returned>>

\* The AI step of ChessApp::update(): late says that more than 500 ms have
\* passed since ai_move_start, ai_move is what get_best_move returns.
App_update ==
    /\ \E late \in BOOLEAN :
       \E ai_move \in {NoMove} \cup
                      {mv \in app_book \cup ReplyProbes : is_valid(board, "Black", mv)} :
        IF /\ ai_thinking /\ current_player = "Black"
           /\ ai_move_start
           /\ late
           /\ ai_move # NoMove
        THEN /\ board' = make_move(board, ai_move)
             /\ Played(ai_move)
             /\ current_player' = "White"
             /\ ai_thinking' = FALSE
             /\ ai_move_start' = FALSE
             /\ game_state' = next_game_state(board', "White", game_state)
        ELSE UNCHANGED <<board, current_player, step, free, game_state, ai_thinking,
                         ai_move_start>>
    /\ pc' = "update"
    /\ UNCHANGED <<line, rook_intact, king_stayed, ai, id_depth, id_best_move, sd_moves,
                   sd_index, sd_best, elapsed, result, complete_move, cut_short, mates,
                   ai_difficulty, selected_square, valid_moves, promotion_pending, called,
                   returned>>

\* ChessApp::new_game(); another line may be followed in the new game.
App_new_game ==
    /\ board' = Board_new
    /\ current_player' = "White"
    /\ selected_square' = NoSquare
    /\ valid_moves' = <<>>
    /\ game_state' = "Playing"
    /\ ai_thinking' = FALSE
    /\ ai_move_start' = FALSE
    /\ promotion_pending' = NoMove
    /\ line' \in 1..Len(AppLines)
    /\ step' = 0
    /\ free' = 0
    /\ pc' = "new_game"
    /\ UNCHANGED <<rook_intact, king_stayed, ai, id_depth, id_best_move, sd_moves, sd_index,
                   sd_best, elapsed, result, complete_move, cut_short, mates, ai_difficulty,
                   called, returned>>

\* ChessApp::set_ai_difficulty(difficulty)
App_set_ai_difficulty ==
    /\ \E difficulty \in Difficulties :
        /\ ai_difficulty' = difficulty
        /\ ai' = ChessAI_new(get_depth(difficulty))
    /\ pc' = "set_ai_difficulty"
    /\ UNCHANGED <<board, current_player, play_vars, id_depth, id_best_move, sd_moves,
                   sd_index, sd_best, elapsed, result, complete_move, cut_short, mates,
                   game_state, ai_thinking, ai_move_start, selected_square, valid_moves,
                   promotion_pending, called, returned>>

NextApp ==
    \/ App_handle_square_click
    \/ App_handle_promotion_choice
    \/ App_update
    \/ App_new_game
    \/ App_set_ai_difficulty

SpecApp == InitApp /\ [][NextApp]_vars

\* C39: in ChessApp, ai_thinking implies that Black is to move and the game
\* is Playing; a pending promotion implies that White is to move and the AI
\* is not thinking; a click changes the board only when White is to move,
\* the game is Playing, the AI is not thinking and no promotion is pending;
\* the AI step changes the board only when ai_thinking holds and Black is to
\* move.
C39_AppTurnDiscipline ==
    /\ [](ai_thinking => current_player = "Black" /\ game_state = "Playing")
    /\ [](promotion_pending # NoMove => current_player = "White" /\ ~ai_thinking)
    /\ [][/\ pc' = "handle_square_click" /\ board' # board =>
                /\ current_player = "White"
                /\ game_state = "Playing"
                /\ ~ai_thinking
                /\ promotion_pending = NoMove
          /\ pc' = "update" /\ board' # board =>
                ai_thinking /\ current_player = "Black"]_vars

\* A promotion choice is awaited after clicks and AI steps, and a handler
\* other than new_game has been called since.
C39_Witness ==
    /\ promotion_pending # NoMove
    /\ step > 0
    /\ pc \in {"handle_square_click", "update", "set_ai_difficulty"}
    /\ selected_square # NoSquare

====
